---- MODULE Spec2Model ----
(***************************************************************************)
(* Transaction synchronisation core of budgetApp: the persistent sync-job  *)
(* state machine (sync/jobs.ts), the incremental reconciler                *)
(* (plaid/incremental-sync.ts) and the webhook routes that drive them.     *)
(*                                                                         *)
(* Every awaited database statement or upstream call is one atomic step of *)
(* the worker (request handler) that issues it; steps of different workers *)
(* interleave freely.  Time is in seconds; now() of the database and       *)
(* Date.now() of the application read the same clock.                      *)
(*                                                                         *)
(* Spec   : webhook deliveries and sweeps driving the sync_job state       *)
(*          machine and the reconciler's cursor loop.                      *)
(* SpecTx : the writers of the transaction table: the reconciler's upsert  *)
(*          and delete, user recategorisation, rule application.           *)
(***************************************************************************)
EXTENDS Integers, Sequences, FiniteSets, TLC

(* ------------------------------ bounds -------------------------------- *)
\* the clock runs from 0 to MaxTime
MaxTime == 6
\* sync_job.max_attempts ranges over 1..MaxMaxAttempts
MaxMaxAttempts == 3
\* distinct non-empty continuation tokens the upstream feed hands out
NCursors == 2
\* upstream fetch failures with a cursor set, per reconciliation run
MaxDrifts == 2

(* ------------------------- program constants -------------------------- *)
BackoffCapSeconds == 300
DefaultSweepLimit == 20

NULL == "NULL"
\* plaid_item.plaid_cursor IS NULL / the local cursor is undefined
NoCursor == 0
\* plaid_item.last_synced_at IS NULL
NeverSynced == -1
\* concurrent request handlers
Workers == {"w1", "w2"}
\* the webhook_code values of the webhook bodies sent
WebhookCodes == {"SYNC_UPDATES_AVAILABLE"}
LinkedItem == "item_1"
UnlinkedItem == "item_x"
SecondItem == "item_2"
\* plaid_item.user_id of the items users have linked
ItemUser == (LinkedItem :> "user_1") @@ (SecondItem :> "user_2")
\* the plaid_item rows webhooks arrive for
ItemIds == {LinkedItem}
\* parsed webhook bodies of type TRANSACTIONS: item_id and the remaining fields
Payloads == [item_id : ItemIds \cup {UnlinkedItem}, webhook_code : WebhookCodes]
Cursors == 1..NCursors

VARIABLES
  now,      \* database clock
  jobs,     \* sync_job table: id -> row
  nextJobId,\* next value of gen_random_uuid() for sync_job.id
  items,    \* plaid_item table: plaid_item_id -> [plaid_cursor, last_synced_at]
  worker,   \* per request handler: position and locals
  enq,      \* history: per payload, what enqueueWebhookSyncJob returned so far
  hist,     \* history: per job id, reconciler invocations and status trail
  txns,     \* "transaction" table, source PLAID: external_id -> row
  categories, \* category table of the user: name -> row
  upsert,   \* the reconciler inside upsertPlaidTransaction: position and locals
  ruleList, \* the rules handed to findBestCategoryRuleFromList, in list order
  matchTx,  \* the transaction handed to the matcher and to the rule learner
  matchOut, \* what the calls of findBestCategoryRuleFromList returned
  learnOut, \* what the call of buildLearnedRuleCandidate returned
  ruleRows, \* category_rule table: id -> row
  recat,    \* per PATCH /transactions/:id/category handler: position and locals
  changeEvents, \* category_change_event table, in insertion order
  syncJobs, \* sync_job table of several users, statement by statement
  purged,   \* history: the rows the retention purges deleted
  sweeps,   \* history: per request handler, the arguments and rows of its sweep
  feed      \* the reconciler's current response and page, with the history
            \* of its fetches

jobVars == <<now, jobs, nextJobId, items, worker, enq, hist>>
txVars == <<txns, categories, upsert>>
catVars == <<ruleList, matchTx, matchOut, learnOut, ruleRows, recat, changeEvents>>
retVars == <<syncJobs, purged, sweeps, feed>>
vars == <<jobVars, txVars, catVars, retVars>>

JobIds == DOMAIN jobs

(* buildWebhookIdempotencyKey: sha256 hex digest of JSON.stringify(payload). *)
(* The digest is modelled as a tagged copy of the serialised payload, i.e.  *)
(* SHA-256 is taken to be collision free on the payloads of the model.      *)
JsonStringify(p) == <<"TRANSACTIONS", p.webhook_code, p.item_id>>
buildWebhookIdempotencyKey(p) == <<"sha256", JsonStringify(p)>>

RECURSIVE Pow2(_)
Pow2(n) == IF n <= 0 THEN 1 ELSE 2 * Pow2(n - 1)
Min(a, b) == IF a <= b THEN a ELSE b
Max(a, b) == IF a >= b THEN a ELSE b

(* nextRetryAt(attempt): Date.now() + min(300, 2 ** max(1, attempt)) s *)
BackoffSeconds(attempt) == Min(BackoffCapSeconds, Pow2(Max(1, attempt)))
\* variant: the delay taken as the date
nextRetryAtDelayOnly(attempt) == BackoffSeconds(attempt)
\* variant: the delay without its cap
nextRetryAtUncapped(attempt) == now + Pow2(Max(1, attempt))
nextRetryAt(attempt) == now + BackoffSeconds(attempt)

(* ---------------- local transaction storage: values ------------------ *)
\* strings that are normalised are sequences of characters; a null string:
NullStr == <<NULL>>
\* plaid_transaction ids the upstream feed reports
ExternalIds == {"tx_1", "tx_2"}
TheUser == "user_1"
TheAccount == "account_1"
\* transaction.category_confidence IS NULL; confidences are in 1/10000
NoConfidence == -1

\* what the upstream feed may report for a transaction id (SyncTransaction
\* without its id): personal_finance_category labels as character sequences
UpstreamVersions ==
  { [amount |-> 1250, iso_currency_code |-> NULL, date |-> "2026-01-05",
     authorized_date |-> NULL, merchant_name |-> "Starbucks",
     name |-> "STARBUCKS COFFEE #123", mcc |-> NULL, pending |-> TRUE,
     primary |-> <<"A", "_", "B">>, detailed |-> <<"A", "_", "B", "-", "a">>],
    [amount |-> 1300, iso_currency_code |-> "CAD", date |-> "2026-01-06",
     authorized_date |-> "2026-01-05", merchant_name |-> NULL,
     name |-> "SQ *COFFEE", mcc |-> "5814", pending |-> FALSE,
     primary |-> <<" ", "b", "_", "_", "A", " ">>, detailed |-> <<" ">>],
    [amount |-> -400, iso_currency_code |-> "USD", date |-> "2026-01-06",
     authorized_date |-> NULL, merchant_name |-> "Refund",
     name |-> "REFUND", mcc |-> NULL, pending |-> FALSE,
     primary |-> NullStr, detailed |-> NullStr] }

UpstreamTxs ==
  {[transaction_id |-> x, data |-> v] : x \in ExternalIds, v \in UpstreamVersions}

\* a category the user created by hand, whose name is also a label the
\* reconciler derives
InitialCategories == (<<"B", " ", "A">> :> [is_system |-> FALSE])
                       @@ (<<"M", "y">> :> [is_system |-> FALSE])

\* tx and categoryId are the locals of the call; replaced holds the row the
\* last statement found under the record's external id, if any (history)
IdleUpsert == [pc |-> "idle", tx |-> <<>>, categoryId |-> NullStr, replaced |-> <<>>,
               removed |-> <<>>, deleted |-> <<>>]

IdleWorker ==
  [pc |-> "idle", op |-> "none", payload |-> NULL, item |-> NULL,
   user_id |-> NULL, created |-> FALSE, jobId |-> 0, attempt_count |-> 0, max_attempts |-> 0,
   queue |-> <<>>, cursor |-> NoCursor, hasMore |-> FALSE, resets |-> 0,
   error |-> NULL, ret |-> "none", queued |-> 0, processed |-> 0, claimed |-> {}]

InitSync ==
  /\ now = 0
  /\ jobs = <<>>
  /\ nextJobId = 1
  /\ items = [i \in ItemIds |-> [plaid_cursor |-> NoCursor, last_synced_at |-> NeverSynced]]
  /\ worker = [w \in Workers |-> IdleWorker]
  /\ enq = [p \in Payloads |-> [created |-> 0, ids |-> {}]]
  /\ hist = <<>>
  /\ txns = <<>>
  /\ categories = InitialCategories
  /\ upsert = IdleUpsert

\* no matcher or learner call, no rules
InitCat ==
  /\ ruleList = <<>>
  /\ matchTx = <<>>
  /\ matchOut = <<>>
  /\ learnOut = <<>>
  /\ ruleRows = <<>>
  /\ recat = <<>>
  /\ changeEvents = <<>>

InitRet ==
  /\ syncJobs = <<>>
  /\ purged = {}
  /\ sweeps = <<>>
  /\ feed = <<>>

Init == InitSync /\ InitCat /\ InitRet

(* ------------------------------ clock --------------------------------- *)
Tick ==
  /\ now < MaxTime
  /\ now' = now + 1
  /\ UNCHANGED <<jobs, nextJobId, items, worker, enq, hist, txVars, catVars, retVars>>

(* --------------------- enqueueWebhookSyncJob -------------------------- *)
\* the sync_job rows holding idempotency key k (the column is UNIQUE)
JobsWithKey(k) == {j \in JobIds : jobs[j].idempotency_key = k}

\* variant: the insert without its ON CONFLICT arbiter
InsertNeverConflicts(k) == FALSE

\* INSERT ... ON CONFLICT (idempotency_key) DO NOTHING RETURNING id
InsertConflicts(k) == JobsWithKey(k) # {}

\* The row enqueueWebhookSyncJob inserts.  The statement leaves max_attempts to
\* the column default (5); m ranges over the values CHECK (max_attempts >= 1)
\* admits, up to MaxMaxAttempts.
NewJobRow(p, m) ==
  [user_id |-> ItemUser[p.item_id], plaid_item_id |-> p.item_id,
   idempotency_key |-> buildWebhookIdempotencyKey(p),
   trigger_source |-> "WEBHOOK", status |-> "PENDING", attempt_count |-> 0,
   max_attempts |-> m, next_run_at |-> now, last_error |-> NULL]

\* history of a job: reconciler invocations and successes on its behalf, the
\* statuses it went through, the next_run_at stored at each RETRY
NewHist == [invoked |-> 0, succeeded |-> 0, trail |-> <<"PENDING">>,
            retryAts |-> <<>>]

\* POST /webhooks/plaid with a TRANSACTIONS body: the handler calls
\* enqueueWebhookSyncJob, whose first statement looks the item up.
WebhookLookupItem(w, p) ==
  /\ worker[w].pc = "idle"
  /\ IF p.item_id \in DOMAIN items
       THEN worker' = [worker EXCEPT ![w] =
                 [IdleWorker EXCEPT !.pc = "enq_insert", !.op = "webhook",
                                    !.payload = p, !.item = p.item_id]]
       ELSE \* no plaid_item row: return null, the route answers 202
            worker' = [worker EXCEPT ![w] =
                 [IdleWorker EXCEPT !.pc = "returned", !.op = "webhook",
                                    !.ret = "not_linked"]]
  /\ UNCHANGED <<now, jobs, nextJobId, items, enq, hist, txVars, catVars, retVars>>

EnqueueInsert(w) ==
  LET p == worker[w].payload
      k == buildWebhookIdempotencyKey(p)
  IN /\ worker[w].pc = "enq_insert"
     /\ IF p.item_id \notin DOMAIN items
          THEN \* the row violates sync_job_plaid_item_id_fkey: the statement
               \* throws and the route answers 502
               /\ worker' = [worker EXCEPT ![w] =
                      [IdleWorker EXCEPT !.pc = "returned", !.op = "webhook",
                                         !.ret = "error"]]
               /\ UNCHANGED <<jobs, hist, nextJobId, enq>>
          ELSE IF ~InsertConflicts(k)
          THEN \E m \in 1..MaxMaxAttempts :
                 /\ jobs' = jobs @@ (nextJobId :> NewJobRow(p, m))
                 /\ hist' = hist @@ (nextJobId :> NewHist)
                 /\ nextJobId' = nextJobId + 1
                 /\ enq' = [enq EXCEPT ![p].created = @ + 1,
                                       ![p].ids = @ \cup {nextJobId}]
                 /\ worker' = [worker EXCEPT ![w].pc = "claim",
                                             ![w].created = TRUE,
                                             ![w].jobId = nextJobId]
          ELSE /\ worker' = [worker EXCEPT ![w].pc = "enq_select"]
               /\ UNCHANGED <<jobs, hist, nextJobId, enq>>
     /\ UNCHANGED <<now, items, txVars, catVars, retVars>>

EnqueueSelect(w) ==
  LET p == worker[w].payload
      found == JobsWithKey(buildWebhookIdempotencyKey(p))
  IN /\ worker[w].pc = "enq_select"
     /\ IF found = {}
          THEN /\ worker' = [worker EXCEPT ![w] =
                      [IdleWorker EXCEPT !.pc = "returned", !.op = "webhook",
                                         !.ret = "not_linked"]]
               /\ UNCHANGED enq
          ELSE \E j \in found :
                 /\ enq' = [enq EXCEPT ![p].ids = @ \cup {j}]
                 /\ worker' = [worker EXCEPT ![w].pc = "claim",
                                             ![w].created = FALSE,
                                             ![w].jobId = j]
     /\ UNCHANGED <<now, jobs, nextJobId, items, hist, txVars, catVars, retVars>>

(* -------------------------- processSyncJob ---------------------------- *)
\* what processSyncJob returns, by the name of the outcome
SyncJobResult(ret) ==
  CASE ret = "unclaimed" -> [claimed |-> FALSE]
    [] ret = "completed" -> [claimed |-> TRUE, completed |-> TRUE]
    [] ret = "retry" -> [claimed |-> TRUE, completed |-> FALSE, failed |-> FALSE]
    [] ret = "failed" -> [claimed |-> TRUE, completed |-> FALSE, failed |-> TRUE]

\* processSyncJob returns r; its locals are dead from here on.  In a sweep:
\* if (result.claimed) processed += 1
Returned(wk, r) ==
  [wk EXCEPT !.pc = "returned", !.ret = r, !.item = NULL, !.user_id = NULL,
             !.attempt_count = 0,
             !.max_attempts = 0, !.cursor = NoCursor, !.hasMore = FALSE,
             !.resets = 0, !.error = NULL,
             !.processed = IF wk.op = "sweep" /\ SyncJobResult(r).claimed
                             THEN @ + 1 ELSE @]

\* variant: the claim without its status test
ClaimableAnyStatus(j) ==
  /\ j \in JobIds
  /\ jobs[j].next_run_at <= now

\* variant: the claim taking over a job that is being processed
ClaimableWithProcessing(j) ==
  /\ j \in JobIds
  /\ jobs[j].status \in {"PENDING", "RETRY", "PROCESSING"}
  /\ jobs[j].next_run_at <= now

Claimable(j) ==
  /\ j \in JobIds
  /\ jobs[j].status \in {"PENDING", "RETRY"}
  /\ jobs[j].next_run_at <= now

AppendTrail(j, st) == [hist EXCEPT ![j].trail = Append(@, st)]

\* UPDATE sync_job SET status = 'PROCESSING' WHERE id = $1 AND status IN
\* ('PENDING','RETRY') AND next_run_at <= now() RETURNING ...; on a hit the
\* reconciler is called at once with the returned row.
Claim(w) ==
  LET j == worker[w].jobId
  IN /\ worker[w].pc = "claim"
     /\ IF Claimable(j)
          THEN /\ jobs' = [jobs EXCEPT ![j].status = "PROCESSING"]
               /\ hist' = [AppendTrail(j, "PROCESSING") EXCEPT ![j].invoked = @ + 1]
               /\ worker' = [worker EXCEPT
                    ![w].pc = "run",
                    ![w].claimed = @ \cup {j},
                    ![w].item = jobs[j].plaid_item_id,
                    ![w].user_id = jobs[j].user_id,
                    ![w].attempt_count = jobs[j].attempt_count,
                    ![w].max_attempts = jobs[j].max_attempts]
          ELSE /\ worker' = [worker EXCEPT ![w] = Returned(worker[w], "unclaimed")]
               /\ UNCHANGED <<jobs, hist>>
     /\ UNCHANGED <<now, nextJobId, items, enq, txVars, catVars, retVars>>

(* --------------------- runIncrementalSyncForUser ---------------------- *)
\* SELECT id, access_token_encrypted, plaid_cursor FROM plaid_item
\* WHERE user_id = $1 AND id = $2
SelectItems(u, i) == {x \in DOMAIN items : x = i /\ ItemUser[x] = u}

\* if (cursor): a stored cursor is a non-empty string
CursorSet(c) == c # NoCursor

RunSelectItems(w) ==
  LET found == SelectItems(worker[w].user_id, worker[w].item)
  IN /\ worker[w].pc = "run"
     /\ IF found = {}
          THEN worker' = [worker EXCEPT ![w].pc = "fail",
                                        ![w].error = "NO_ITEMS"]
          ELSE worker' = [worker EXCEPT
                 ![w].pc = "fetch",
                 ![w].cursor = items[worker[w].item].plaid_cursor,
                 ![w].hasMore = TRUE]
     /\ UNCHANGED <<now, jobs, nextJobId, items, enq, hist, txVars, catVars, retVars>>

\* variant: the cursor stored after every page
AfterPageStoringCursor(w, next_cursor, has_more) ==
  /\ worker' = [worker EXCEPT ![w].cursor = next_cursor,
                              ![w].hasMore = has_more,
                              ![w].pc = IF has_more THEN "fetch" ELSE "persist"]
  /\ items' = [items EXCEPT ![worker[w].item].plaid_cursor = next_cursor]

\* the page of a successful transactionsSync response has been applied (its
\* writes go to the transaction and category tables, see SpecTx):
\* cursor = next_cursor; hasMore = has_more; the while test follows
AfterPage(w, next_cursor, has_more) ==
  /\ worker' = [worker EXCEPT ![w].cursor = next_cursor,
                              ![w].hasMore = has_more,
                              ![w].pc = IF has_more THEN "fetch" ELSE "persist"]
  /\ items' = items

\* plaidClient.transactionsSync({access_token, cursor}) answers
FetchOk(w) ==
  /\ worker[w].pc = "fetch"
  /\ \E c \in Cursors, more \in BOOLEAN : AfterPage(w, c, more)
  /\ UNCHANGED <<now, jobs, nextJobId, enq, hist, txVars, catVars, retVars>>

\* the first fetch of an iteration throws with a cursor set:
\* cursor = undefined, then the reset statement is issued
FetchFailsCursorSet(w) ==
  /\ worker[w].pc = "fetch"
  /\ CursorSet(worker[w].cursor)
  /\ worker[w].resets < MaxDrifts
  /\ worker' = [worker EXCEPT ![w].cursor = NoCursor, ![w].pc = "reset"]
  /\ UNCHANGED <<now, jobs, nextJobId, items, enq, hist, txVars, catVars, retVars>>

\* the first fetch of an iteration throws with no cursor: throw new Error(details)
FetchFailsNoCursor(w) ==
  /\ worker[w].pc = "fetch"
  /\ ~CursorSet(worker[w].cursor)
  /\ worker' = [worker EXCEPT ![w].pc = "fail", ![w].error = "PLAID_ERROR"]
  /\ UNCHANGED <<now, jobs, nextJobId, items, enq, hist, txVars, catVars, retVars>>

\* UPDATE plaid_item SET plaid_cursor = NULL WHERE id = $1
ResetCursor(w) ==
  /\ worker[w].pc = "reset"
  /\ items' = IF worker[w].item \in DOMAIN items
                THEN [items EXCEPT ![worker[w].item].plaid_cursor = NoCursor]
                ELSE items
  /\ worker' = [worker EXCEPT ![w].pc = "refetch", ![w].resets = @ + 1]
  /\ UNCHANGED <<now, jobs, nextJobId, enq, hist, txVars, catVars, retVars>>

\* the second transactionsSync call, inside the catch block
RefetchOk(w) ==
  /\ worker[w].pc = "refetch"
  /\ \E c \in Cursors, more \in BOOLEAN : AfterPage(w, c, more)
  /\ UNCHANGED <<now, jobs, nextJobId, enq, hist, txVars, catVars, retVars>>

\* ... which is not guarded: its error leaves runIncrementalSyncForUser
RefetchFails(w) ==
  /\ worker[w].pc = "refetch"
  /\ worker' = [worker EXCEPT ![w].pc = "fail", ![w].error = "UPSTREAM"]
  /\ UNCHANGED <<now, jobs, nextJobId, items, enq, hist, txVars, catVars, retVars>>

\* UPDATE plaid_item SET plaid_cursor = $2, last_synced_at = now() WHERE id = $1
PersistCursor(w) ==
  /\ worker[w].pc = "persist"
  /\ items' = IF worker[w].item \in DOMAIN items
                THEN [items EXCEPT ![worker[w].item] =
                        [plaid_cursor |-> worker[w].cursor, last_synced_at |-> now]]
                ELSE items
  /\ worker' = [worker EXCEPT ![w].pc = "complete"]
  /\ UNCHANGED <<now, jobs, nextJobId, enq, hist, txVars, catVars, retVars>>

(* ------------------- processSyncJob: the outcome ---------------------- *)
\* variants: the test with > for >=, and a test that never holds
FinalFailureOffByOne(nextAttempt, max_attempts) == nextAttempt > max_attempts
FinalFailureNever(nextAttempt, max_attempts) == FALSE

\* const finalFailure = nextAttempt >= job.max_attempts
FinalFailure(nextAttempt, max_attempts) == nextAttempt >= max_attempts

\* variant: the success update rescheduling the row
CompletedRowRescheduled(row) ==
  [row EXCEPT !.status = "COMPLETED", !.attempt_count = @ + 1,
              !.last_error = NULL, !.next_run_at = now]

\* SET status = 'COMPLETED', attempt_count = attempt_count + 1,
\* last_error = NULL
CompletedRow(row) ==
  [row EXCEPT !.status = "COMPLETED", !.attempt_count = @ + 1,
              !.last_error = NULL]

\* UPDATE sync_job SET ... WHERE id = $1, after the reconciler returned
Complete(w) ==
  LET j == worker[w].jobId
  IN /\ worker[w].pc = "complete"
     /\ IF j \in JobIds
          THEN /\ jobs' = [jobs EXCEPT ![j] = CompletedRow(jobs[j])]
               /\ hist' = [AppendTrail(j, "COMPLETED") EXCEPT ![j].succeeded = @ + 1]
          ELSE UNCHANGED <<jobs, hist>>
     /\ worker' = [worker EXCEPT ![w] = Returned(worker[w], "completed")]
     /\ UNCHANGED <<now, nextJobId, items, enq, txVars, catVars, retVars>>

\* variant: the message left out of the statement
LastErrorUnrecorded(error) == NULL

\* (error as Error).message ?? "Unknown sync failure"; an error is modelled by
\* its message, NULL for a thrown value without one
LastError(error) == IF error = NULL THEN "Unknown sync failure" ELSE error

\* catch (error): UPDATE sync_job SET status = $2, attempt_count = $3,
\* next_run_at = $4, last_error = $5 WHERE id = $1
Fail(w) ==
  LET j == worker[w].jobId
      nextAttempt == worker[w].attempt_count + 1
      finalFailure == FinalFailure(nextAttempt, worker[w].max_attempts)
      st == IF finalFailure THEN "FAILED" ELSE "RETRY"
      at == IF finalFailure THEN now ELSE nextRetryAt(nextAttempt)
  IN /\ worker[w].pc = "fail"
     /\ IF j \in JobIds
          THEN /\ jobs' = [jobs EXCEPT ![j].status = st,
                                       ![j].attempt_count = nextAttempt,
                                       ![j].next_run_at = at,
                                       ![j].last_error = LastError(worker[w].error)]
               /\ hist' = IF finalFailure
                            THEN AppendTrail(j, st)
                            ELSE [AppendTrail(j, st) EXCEPT
                                    ![j].retryAts = Append(@, at)]
          ELSE \* the row is gone: the statement updates nothing
               UNCHANGED <<jobs, hist>>
     /\ worker' = [worker EXCEPT ![w] =
           Returned(worker[w], IF finalFailure THEN "failed" ELSE "retry")]
     /\ UNCHANGED <<now, nextJobId, items, enq, txVars, catVars, retVars>>

(* ------------------------------ sweeps -------------------------------- *)
\* variant: the SELECT of the sweep without the retries
DueOnlyPending(u) == {j \in JobIds : /\ u \in {"any", jobs[j].user_id}
                                     /\ jobs[j].status = "PENDING"
                                     /\ jobs[j].next_run_at <= now}

Due(u) == {j \in JobIds : /\ u \in {"any", jobs[j].user_id}
                          /\ jobs[j].status \in {"PENDING", "RETRY"}
                          /\ jobs[j].next_run_at <= now}

IsInjective(q) == \A a, b \in 1..Len(q) : q[a] = q[b] => a = b
Range(q) == {q[a] : a \in 1..Len(q)}

\* variant: the SELECT without its ORDER BY
SweepSelectionsUnordered(u, limit) ==
  LET due == Due(u)
      n == Min(limit, Cardinality(due))
  IN {q \in [1..n -> due] : IsInjective(q)}

\* the results SELECT id ... ORDER BY next_run_at ASC LIMIT $n may give:
\* rows with equal next_run_at come in any order
SweepSelections(u, limit) ==
  LET due == Due(u)
      n == Min(limit, Cardinality(due))
  IN {q \in [1..n -> due] :
        /\ IsInjective(q)
        /\ \A a, b \in 1..n : a < b => jobs[q[a]].next_run_at <= jobs[q[b]].next_run_at
        /\ \A j \in due \ Range(q), a \in 1..n :
              jobs[q[a]].next_run_at <= jobs[j].next_run_at}

\* for (const job of jobs.rows) processSyncJob(job.id)
NextInQueue(w, q) ==
  IF q = <<>>
    THEN worker' = [worker EXCEPT ![w] = IdleWorker]
    ELSE worker' = [worker EXCEPT ![w].pc = "claim", ![w].jobId = Head(q),
                                  ![w].queue = Tail(q)]

\* the sweep has the rows q of its SELECT: let processed = 0, then the loop
SweepLoop(w, q) ==
  IF q = <<>>
    THEN worker' = [worker EXCEPT ![w] = IdleWorker]
    ELSE worker' = [worker EXCEPT ![w] =
           [IdleWorker EXCEPT !.pc = "claim", !.op = "sweep",
                              !.jobId = Head(q), !.queue = Tail(q),
                              !.queued = Len(q)]]

\* processDueSyncJobsForUser(userId) from POST /webhooks/plaid/process-due,
\* processDueSyncJobs() for every user; limit = 20 unless given
SweepSelect(w, u, limit) ==
  /\ worker[w].pc = "idle"
  /\ \E q \in SweepSelections(u, limit) : SweepLoop(w, q)
  /\ UNCHANGED <<now, jobs, nextJobId, items, enq, hist, txVars, catVars, retVars>>

\* processSyncJob has returned: the webhook route responds, a sweep goes on
\* with the next selected row
Continue(w) ==
  /\ worker[w].pc = "returned"
  /\ NextInQueue(w, worker[w].queue)
  /\ UNCHANGED <<now, jobs, nextJobId, items, enq, hist, txVars, catVars, retVars>>

Users == {ItemUser[i] : i \in ItemIds}
SweepLimits == {1, DefaultSweepLimit}

Next ==
  \/ Tick
  \/ \E w \in Workers, p \in Payloads : WebhookLookupItem(w, p)
  \/ \E w \in Workers : EnqueueInsert(w)
  \/ \E w \in Workers : EnqueueSelect(w)
  \/ \E w \in Workers : Claim(w)
  \/ \E w \in Workers : RunSelectItems(w)
  \/ \E w \in Workers : FetchOk(w)
  \/ \E w \in Workers : FetchFailsCursorSet(w)
  \/ \E w \in Workers : FetchFailsNoCursor(w)
  \/ \E w \in Workers : ResetCursor(w)
  \/ \E w \in Workers : RefetchOk(w)
  \/ \E w \in Workers : RefetchFails(w)
  \/ \E w \in Workers : PersistCursor(w)
  \/ \E w \in Workers : Complete(w)
  \/ \E w \in Workers : Fail(w)
  \/ \E w \in Workers, u \in Users \cup {"any"}, l \in SweepLimits : SweepSelect(w, u, l)
  \/ \E w \in Workers : Continue(w)

Spec == Init /\ [][Next]_vars

(* ------------------- processSyncJob: late failures -------------------- *)
\* The catch block applied to a job that has already failed n times, for n
\* up to MaxFailures: the job was enqueued at 0, every execution failed at
\* once and every retry was claimed as soon as it was due.
MaxFailures == 11
ErrorMessages == {"PLAID_ERROR", "UPSTREAM", "NO_ITEMS"}

\* the next_run_at stored at the first n failures of such a job
RECURSIVE RetryDates(_)
RetryDates(n) ==
  IF n = 0 THEN <<>>
  ELSE LET before == RetryDates(n - 1)
           failedAt == IF n = 1 THEN 0 ELSE before[n - 1]
       IN Append(before, failedAt + BackoffSeconds(n))

\* PENDING, then PROCESSING and RETRY n times, then PROCESSING
RECURSIVE TrailAfter(_)
TrailAfter(n) ==
  IF n = 0 THEN <<"PENDING", "PROCESSING">>
  ELSE SubSeq(TrailAfter(n - 1), 1, 2 * n) \o <<"RETRY", "PROCESSING">>

\* a sweep's processSyncJob has claimed the job for execution n + 1, late
\* seconds after it was due, and the reconciler has thrown
InitBackoff ==
  \E n \in 0..MaxFailures, m \in 1..(MaxFailures + 2), late \in 0..1,
     e \in ErrorMessages :
    /\ n < m
    /\ LET dates == RetryDates(n)
           due == IF n = 0 THEN 0 ELSE dates[n]
       IN /\ now = due + late
          /\ jobs = (1 :> [NewJobRow([item_id |-> LinkedItem,
                                      webhook_code |-> "SYNC_UPDATES_AVAILABLE"], m)
                            EXCEPT !.status = "PROCESSING", !.attempt_count = n,
                                   !.next_run_at = due,
                                   !.last_error = IF n = 0 THEN NULL ELSE e])
          /\ hist = (1 :> [invoked |-> n + 1, succeeded |-> 0,
                           trail |-> TrailAfter(n), retryAts |-> dates])
    /\ nextJobId = 2
    /\ items = [i \in ItemIds |-> [plaid_cursor |-> NoCursor, last_synced_at |-> NeverSynced]]
    /\ worker = [w \in Workers |->
         IF w = "w1"
           THEN [IdleWorker EXCEPT !.pc = "fail", !.op = "sweep", !.jobId = 1,
                                   !.item = LinkedItem, !.user_id = ItemUser[LinkedItem],
                                   !.attempt_count = n, !.max_attempts = m,
                                   !.error = e, !.queued = 1, !.claimed = {1}]
           ELSE IdleWorker]
    /\ enq = [p \in Payloads |->
         IF p.item_id = LinkedItem THEN [created |-> 1, ids |-> {1}]
                                   ELSE [created |-> 0, ids |-> {}]]
    /\ txns = <<>> /\ categories = InitialCategories /\ upsert = IdleUpsert
    /\ InitCat /\ InitRet

NextBackoff == \E w \in Workers : Fail(w)

SpecBackoff == InitBackoff /\ [][NextBackoff]_vars

(* --------------------- sweeps over several jobs ----------------------- *)
\* Two request handlers sweeping a sync_job table that holds jobs of two
\* users, due and not yet due, at one instant of the clock.
SweepClock == 1
\* processDueSyncJobsForUser of user_1 and processDueSyncJobs
SweepScopes == {ItemUser[LinkedItem], "any"}
\* the limit arguments: one below the number of jobs that can be due, and
\* the default
SweepCallLimits == {2, DefaultSweepLimit}

\* a row as enqueueWebhookSyncJob stored it for item i under key k, after
\* failed executions brought it to status st and count n of m
StoredJobRow(i, k, st, n, m, at) ==
  [user_id |-> ItemUser[i], plaid_item_id |-> i, idempotency_key |-> k,
   trigger_source |-> "WEBHOOK", status |-> st, attempt_count |-> n,
   max_attempts |-> m, next_run_at |-> at,
   last_error |-> IF n = 0 THEN NULL ELSE "UPSTREAM"]

\* the processSyncJob calls of a sweep, with the sweep's arguments and the
\* rows its SELECT returned kept in sweeps
SweepSelectRecorded(w, u, limit) ==
  /\ worker[w].pc = "idle"
  /\ \E q \in SweepSelections(u, limit) :
       /\ SweepLoop(w, q)
       /\ sweeps' = [sweeps EXCEPT ![w] =
            [scope |-> u, limit |-> limit, selected |-> q]]
  /\ UNCHANGED <<now, jobs, nextJobId, items, enq, hist, txVars, catVars,
                 syncJobs, purged, feed>>

NoSweep == [scope |-> "none", limit |-> 0, selected |-> <<>>]

\* runIncrementalSyncForUser of a claimed job, from its item SELECT to its
\* return or throw, in one step: a sweep reads neither plaid_item nor the
\* feed, whose statements Spec takes one by one.  On return the cursor of
\* the last page and now() are stored.
ReconcilerReturns(w) ==
  /\ worker[w].pc = "run"
  /\ SelectItems(worker[w].user_id, worker[w].item) # {}
  /\ items' = [items EXCEPT ![worker[w].item] =
                   [plaid_cursor |-> NCursors, last_synced_at |-> now]]
  /\ worker' = [worker EXCEPT ![w].pc = "complete"]
  /\ UNCHANGED <<now, jobs, nextJobId, enq, hist, txVars, catVars, retVars>>

ReconcilerThrows(w) ==
  /\ worker[w].pc = "run"
  /\ worker' = [worker EXCEPT ![w].pc = "fail", ![w].error = "UPSTREAM"]
  /\ UNCHANGED <<now, jobs, nextJobId, items, enq, hist, txVars, catVars, retVars>>

\* jobs 1 and 2 of user_1 (PENDING; RETRY after one failure), each due
\* before, at or after the instant of the sweeps, job 3 of user_2 (PENDING,
\* due first) and job 4 of user_1, COMPLETED
InitSweep ==
  /\ now = SweepClock
  /\ \E a, b \in 0..(SweepClock + 1), c \in {0} :
       /\ jobs = (1 :> StoredJobRow(LinkedItem, "k1", "PENDING", 0, 2, a))
              @@ (2 :> StoredJobRow(LinkedItem, "k2", "RETRY", 1, 2, b))
              @@ (3 :> StoredJobRow(SecondItem, "k3", "PENDING", 0, 1, c))
              @@ (4 :> StoredJobRow(LinkedItem, "k4", "COMPLETED", 1, 1, 0))
       /\ hist = (1 :> NewHist)
              @@ (2 :> [invoked |-> 1, succeeded |-> 0,
                        trail |-> <<"PENDING", "PROCESSING", "RETRY">>,
                        retryAts |-> <<b>>])
              @@ (3 :> NewHist)
              @@ (4 :> [invoked |-> 1, succeeded |-> 1,
                        trail |-> <<"PENDING", "PROCESSING", "COMPLETED">>,
                        retryAts |-> <<>>])
  /\ nextJobId = 5
  /\ items = [i \in DOMAIN ItemUser |->
                [plaid_cursor |-> NoCursor, last_synced_at |-> NeverSynced]]
  /\ worker = [w \in Workers |-> IdleWorker]
  /\ enq = [p \in Payloads |-> [created |-> 0, ids |-> {}]]
  /\ txns = <<>> /\ categories = InitialCategories /\ upsert = IdleUpsert
  /\ InitCat
  /\ syncJobs = <<>> /\ purged = {} /\ feed = <<>>
  /\ sweeps = [w \in Workers |-> NoSweep]

NextSweep ==
  \/ \E w \in Workers, u \in SweepScopes, l \in SweepCallLimits :
       SweepSelectRecorded(w, u, l)
  \/ \E w \in Workers : Claim(w)
  \/ \E w \in Workers : ReconcilerReturns(w)
  \/ \E w \in Workers : ReconcilerThrows(w)
  \/ \E w \in Workers : Complete(w)
  \/ \E w \in Workers : Fail(w)
  \/ \E w \in Workers : Continue(w)

SpecSweep == InitSweep /\ [][NextSweep]_vars

(* ------------------- the queue under repeated sweeps ------------------ *)
\* Webhooks, sweeps and the clock; the reconciler's run is one step, as in
\* SpecSweep.
\* the statements of a handler that has been called
WorkerStep(w) ==
  \/ EnqueueInsert(w)
  \/ EnqueueSelect(w)
  \/ Claim(w)
  \/ ReconcilerReturns(w)
  \/ ReconcilerThrows(w)
  \/ Complete(w)
  \/ Fail(w)
  \/ Continue(w)

\* processDueSyncJobs() is called
SweepAll == \E w \in Workers, l \in SweepLimits : SweepSelect(w, "any", l)

NextLive ==
  \/ Tick
  \/ \E w \in Workers, p \in Payloads : WebhookLookupItem(w, p)
  \/ \E w \in Workers : WorkerStep(w)
  \/ SweepAll
  \/ \E w \in Workers, u \in Users, l \in SweepLimits : SweepSelect(w, u, l)

\* the clock advances, a handler that was called runs to its end, and the
\* sweep over all users is called again and again
LiveFairness ==
  /\ WF_vars(Tick)
  /\ \A w \in Workers : WF_vars(WorkerStep(w))
  /\ SF_vars(SweepAll)

SpecLive == Init /\ [][NextLive]_vars /\ LiveFairness

(* --------------------------- DELETE /data/me -------------------------- *)
\* DELETE FROM app_user WHERE id = $1: plaid_item and sync_job rows of the
\* user go with it (ON DELETE CASCADE)
DeleteMe(u) ==
  /\ \E i \in DOMAIN items : ItemUser[i] = u
  /\ items' = [i \in {x \in DOMAIN items : ItemUser[x] # u} |-> items[i]]
  /\ jobs' = [j \in {x \in JobIds : jobs[x].user_id # u} |-> jobs[j]]
  /\ UNCHANGED <<now, nextJobId, worker, enq, hist, txVars, catVars, retVars>>

NextAcct ==
  \/ Next
  \/ \E u \in Users : DeleteMe(u)

\* the sync core next to account deletion
SpecAcct == Init /\ [][NextAcct]_vars

\* positions of a worker inside runIncrementalSyncForUser or just before the
\* outcome statement of processSyncJob
RunPcs == {"run", "fetch", "reset", "refetch", "persist", "complete", "fail"}

(* ------------------- processSyncJob: a worker stops ------------------- *)
\* The process running processSyncJob ends between the claim and the outcome
\* statement (processSyncJob has no finally clause and the claim no lease):
\* its locals are lost, the row stays as the claim left it.
Stop(w) ==
  /\ worker[w].pc \in RunPcs
  /\ worker' = [worker EXCEPT ![w] =
       [IdleWorker EXCEPT !.pc = "stopped", !.jobId = worker[w].jobId]]
  /\ UNCHANGED <<now, jobs, nextJobId, items, enq, hist, txVars, catVars, retVars>>

NextStop ==
  \/ Next
  \/ \E w \in Workers : Stop(w)

\* the sync core with workers that may stop
SpecStop == Init /\ [][NextStop]_vars

(* ------------------------ plaidCategoryLabel -------------------------- *)
ToLowerChar(c) == CASE c = "A" -> "a" [] c = "B" -> "b" [] OTHER -> c
ToUpperChar(c) == CASE c = "a" -> "A" [] c = "b" -> "B" [] OTHER -> c
\* \s and \w of the characters that occur
IsSpace(c) == c = " "
IsWordChar(c) == c \in {"a", "b", "A", "B", "_"}

RECURSIVE TrimLeft(_)
TrimLeft(s) == IF s # <<>> /\ IsSpace(Head(s)) THEN TrimLeft(Tail(s)) ELSE s
RECURSIVE TrimRight(_)
TrimRight(s) ==
  IF s # <<>> /\ IsSpace(s[Len(s)]) THEN TrimRight(SubSeq(s, 1, Len(s) - 1)) ELSE s
\* String.prototype.trim; a null or undefined string stays so (?.)
Trim(s) == IF s = NullStr THEN NullStr ELSE TrimRight(TrimLeft(s))

RECURSIVE DropWhileIn(_, _)
DropWhileIn(s, class) ==
  IF s # <<>> /\ Head(s) \in class THEN DropWhileIn(Tail(s), class) ELSE s
\* s.replace(/[class]+/g, " ")
RECURSIVE ReplaceRuns(_, _)
ReplaceRuns(s, class) ==
  IF s = <<>> THEN <<>>
  ELSE IF Head(s) \in class
         THEN <<" ">> \o ReplaceRuns(DropWhileIn(Tail(s), class), class)
         ELSE <<Head(s)>> \o ReplaceRuns(Tail(s), class)

\* s.replace(/\b\w/g, (char) => char.toUpperCase())
CapitaliseWords(s) ==
  [k \in 1..Len(s) |->
     IF IsWordChar(s[k]) /\ (k = 1 \/ ~IsWordChar(s[k - 1]))
       THEN ToUpperChar(s[k]) ELSE s[k]]

Truthy(s) == s # NullStr /\ s # <<>>

plaidCategoryLabel(tx) ==
  LET detailed == Trim(tx.data.detailed)
      primary == Trim(tx.data.primary)
      raw == IF Truthy(detailed) THEN detailed ELSE primary
      lower == [k \in 1..Len(raw) |-> ToLowerChar(raw[k])]
  IN IF ~Truthy(raw) THEN NullStr
     ELSE CapitaliseWords(
            TrimRight(TrimLeft(
              ReplaceRuns(ReplaceRuns(lower, {"_", "-"}), {" "}))))

(* ----------------------- upsertPlaidTransaction ----------------------- *)
\* ensureSystemCategoryIdForPlaidTransaction: INSERT INTO category ...
\* ON CONFLICT (user_id, name) DO UPDATE SET is_system = TRUE RETURNING id.
\* A category's id stands for its row; rows are one per (user, name).
EnsureSystemCategoryStatement(tx) ==
  LET label == plaidCategoryLabel(tx)
  IN /\ upsert.pc = "idle"
     /\ IF label = NullStr
          THEN /\ upsert' = [IdleUpsert EXCEPT !.pc = "statement", !.tx = <<tx>>]
               /\ UNCHANGED categories
          ELSE /\ categories' =
                    IF label \in DOMAIN categories
                      THEN [categories EXCEPT ![label].is_system = TRUE]
                      ELSE categories @@ (label :> [is_system |-> TRUE])
               /\ upsert' = [IdleUpsert EXCEPT !.pc = "statement", !.tx = <<tx>>,
                                                !.categoryId = label]
     /\ UNCHANGED txns

\* upsertPlaidTransaction(tx) called for a record of the feed
EnsureSystemCategory(tx) ==
  /\ EnsureSystemCategoryStatement(tx)
  /\ UNCHANGED <<jobVars, catVars, retVars>>

\* the row VALUES (...) of the INSERT: EXCLUDED in the conflict clause
ExcludedRow(tx, categoryId) ==
  [user_id |-> TheUser, account_id |-> TheAccount,
   amount |-> tx.data.amount,
   iso_currency_code |-> IF tx.data.iso_currency_code = NULL
                           THEN "USD" ELSE tx.data.iso_currency_code,
   transaction_date |-> tx.data.date,
   authorized_date |-> tx.data.authorized_date,
   merchant_name |-> tx.data.merchant_name,
   original_description |-> tx.data.name,
   mcc |-> tx.data.mcc,
   pending |-> tx.data.pending,
   is_excluded |-> FALSE,
   category_id |-> categoryId,
   category_source |-> "SYSTEM",
   category_confidence |-> NoConfidence,
   plaid_primary_category |-> tx.data.primary,
   plaid_detailed_category |-> tx.data.detailed,
   raw_payload |-> tx]

\* variant: the conflict clause without its CASE expressions
ConflictUpdateOverwriting(old, excluded) ==
  [excluded EXCEPT !.is_excluded = old.is_excluded]

\* variant: the conflict clause keeping the stored category of every row
ConflictUpdateKeepingCategory(old, excluded) ==
  [excluded EXCEPT !.is_excluded = old.is_excluded,
                   !.category_id = old.category_id,
                   !.category_source = old.category_source,
                   !.category_confidence = old.category_confidence]

\* variant: the conflict clause adding the amount to the stored one
ConflictUpdateAccumulating(old, excluded) ==
  LET protected == old.category_source \in {"USER", "RULE"}
  IN [excluded EXCEPT
        !.amount = old.amount + excluded.amount,
        !.is_excluded = old.is_excluded,
        !.category_id = IF protected THEN old.category_id ELSE excluded.category_id,
        !.category_source = IF protected THEN old.category_source ELSE "SYSTEM",
        !.category_confidence =
           IF protected THEN old.category_confidence ELSE NoConfidence]

\* ON CONFLICT (source, external_id) DO UPDATE SET ...
ConflictUpdate(old, excluded) ==
  LET protected == old.category_source \in {"USER", "RULE"}
  IN [excluded EXCEPT
        !.is_excluded = old.is_excluded,
        !.category_id = IF protected THEN old.category_id ELSE excluded.category_id,
        !.category_source = IF protected THEN old.category_source ELSE "SYSTEM",
        !.category_confidence =
           IF protected THEN old.category_confidence ELSE NoConfidence]

\* INSERT INTO "transaction" ... ON CONFLICT (source, external_id) DO UPDATE
InsertOnConflictUpdate ==
  LET tx == upsert.tx[1]
      x == tx.transaction_id
      excluded == ExcludedRow(tx, upsert.categoryId)
  IN /\ upsert.pc = "statement"
     /\ txns' = IF x \in DOMAIN txns
                  THEN [txns EXCEPT ![x] = ConflictUpdate(txns[x], excluded)]
                  ELSE txns @@ (x :> excluded)
     /\ upsert' = [upsert EXCEPT !.pc = "idle",
           !.replaced = IF x \in DOMAIN txns THEN <<txns[x]>> ELSE <<>>]
     /\ UNCHANGED categories

UpsertStatement ==
  /\ InsertOnConflictUpdate
  /\ UNCHANGED <<jobVars, catVars, retVars>>

\* variant: the delete sparing the rows a user or a rule categorised
DeleteWhereUnprotected(y, userId, x) ==
  /\ txns[y].user_id = userId
  /\ y = x
  /\ txns[y].category_source \notin {"USER", "RULE"}

\* WHERE user_id = $1 AND source = 'PLAID' AND external_id = $2; txns holds
\* the rows of source PLAID under their external ids
DeleteWhere(y, userId, x) ==
  /\ txns[y].user_id = userId
  /\ y = x

\* DELETE FROM "transaction" WHERE ..., for a record of the page's removed
\* set; removed and deleted keep the record's id and the rows that went
DeleteStatement(x) ==
  LET gone == {y \in DOMAIN txns : DeleteWhere(y, TheUser, x)}
  IN /\ upsert.pc = "idle"
     /\ txns' = [y \in DOMAIN txns \ gone |-> txns[y]]
     /\ upsert' = [IdleUpsert EXCEPT !.removed = <<x>>,
                                     !.deleted = IF x \in DOMAIN txns
                                                   THEN <<txns[x]>> ELSE <<>>]
     /\ UNCHANGED categories

DeleteRemoved(x) ==
  /\ DeleteStatement(x)
  /\ UNCHANGED <<jobVars, catVars, retVars>>

(* ------------------ the writers of USER and RULE ---------------------- *)
\* these leave the reconciler's locals alone; the history of its last
\* upsert is kept only until the row is written again, that of its last
\* delete until the next record is applied
ForgetLast ==
  IF upsert.pc = "idle"
    THEN [IdleUpsert EXCEPT !.removed = upsert.removed, !.deleted = upsert.deleted]
    ELSE upsert

\* PATCH /transactions/:id/category: UPDATE "transaction" SET category_id = $3,
\* category_source = 'USER', category_confidence = NULL
UserRecategorize(x, c) ==
  /\ x \in DOMAIN txns
  /\ c \in DOMAIN categories \cup {NullStr}
  /\ txns' = [txns EXCEPT ![x].category_id = c,
                          ![x].category_source = "USER",
                          ![x].category_confidence = NoConfidence]
  /\ upsert' = ForgetLast
  /\ UNCHANGED <<categories, jobVars, catVars, retVars>>

\* confidenceForRule, in 1/10000
OperatorBase(op) ==
  CASE op = "EQUALS" -> 9400 [] op = "STARTS_WITH" -> 8800
    [] op = "ENDS_WITH" -> 8600 [] op = "CONTAINS" -> 8000 [] op = "REGEX" -> 7600
confidenceForRule(rule) ==
  LET priorityPenalty == Min(2000, Max(0, (rule.priority - 10) * 20))
  IN Max(5500, Min(9900, OperatorBase(rule.operator) - priorityPenalty))

\* the rules whose application is modelled: operator and priority
RuleShapes == {[operator |-> "EQUALS", priority |-> 10],
               [operator |-> "REGEX", priority |-> 200]}

\* POST /transactions/:transactionId/apply-category-rules: UPDATE "transaction" SET category_id = $3,
\* category_source = 'RULE', category_confidence = $4 for the matched rule
ApplyMatchedRule(x, c, shape) ==
  /\ x \in DOMAIN txns
  /\ c \in DOMAIN categories
  /\ txns' = [txns EXCEPT ![x].category_id = c,
                          ![x].category_source = "RULE",
                          ![x].category_confidence = confidenceForRule(shape)]
  /\ upsert' = ForgetLast
  /\ UNCHANGED <<categories, jobVars, catVars, retVars>>

CategoryNames == DOMAIN InitialCategories
                   \cup {plaidCategoryLabel(t) : t \in UpstreamTxs}

NextTx ==
  \/ \E tx \in UpstreamTxs : EnsureSystemCategory(tx)
  \/ UpsertStatement
  \/ \E x \in ExternalIds : DeleteRemoved(x)
  \/ \E x \in ExternalIds, c \in CategoryNames : UserRecategorize(x, c)
  \/ \E x \in ExternalIds, c \in CategoryNames, r \in RuleShapes :
       ApplyMatchedRule(x, c, r)

SpecTx == Init /\ [][NextTx]_vars

(* -------------- runIncrementalSyncForUser: page by page --------------- *)
\* One reconciliation run of one item with the pages of the feed: each
\* transactionsSync call, each statement applying a record of the response
\* and the cursor bookkeeping are steps of their own.
\* transactionsSync calls answered per run
MaxPages == 3

\* the record the feed reports for external id x with the given amount
Rec(x, amount) ==
  [transaction_id |-> x,
   data |-> CHOOSE v \in UpstreamVersions : v.amount = amount]
\* tx.account_id of a record: an account of the item, or one not stored
LinkedAccount(tx) == [tx |-> tx, account_id |-> TheAccount]
UnknownAccount(tx) == [tx |-> tx, account_id |-> "account_x"]

\* syncResponse.data of the responses: added, modified, removed
FeedPages ==
  { [added |-> <<LinkedAccount(Rec("tx_1", 1250)), LinkedAccount(Rec("tx_2", 1300))>>,
     modified |-> <<>>, removed |-> <<>>],
    [added |-> <<UnknownAccount(Rec("tx_2", -400))>>,
     modified |-> <<LinkedAccount(Rec("tx_1", 1300))>>, removed |-> <<"tx_2">>],
    [added |-> <<LinkedAccount(Rec("tx_2", 1250))>>,
     modified |-> <<LinkedAccount(Rec("tx_2", -400))>>, removed |-> <<"tx_1">>],
    [added |-> <<>>, modified |-> <<>>, removed |-> <<>>] }

\* the three for loops over a page: what is left to do of them
PageOps(page) ==
  [k \in 1..Len(page.added) |-> [kind |-> "upsert", entry |-> page.added[k]]]
    \o [k \in 1..Len(page.modified) |-> [kind |-> "upsert", entry |-> page.modified[k]]]
    \o [k \in 1..Len(page.removed) |-> [kind |-> "delete", id |-> page.removed[k]]]

\* sent and got: the cursor of every transactionsSync call and every
\* response, in order; todo: the rest of the current page; after: the
\* transaction and category tables as they were when each page was applied
IdleFeed == [sent |-> <<>>, got |-> <<>>, todo |-> <<>>, after |-> <<>>]

\* syncResponse = await plaidClient.transactionsSync({access_token, cursor})
Responds(w) ==
  /\ Len(feed.got) < MaxPages
  /\ \E c \in Cursors, more \in BOOLEAN, page \in FeedPages :
       feed' = [feed EXCEPT
                  !.sent = Append(@, worker[w].cursor),
                  !.got = Append(@, [next_cursor |-> c, has_more |-> more,
                                     page |-> page]),
                  !.todo = PageOps(page)]
  /\ worker' = [worker EXCEPT ![w].pc = "apply"]
  /\ UNCHANGED <<now, jobs, nextJobId, items, enq, hist, txVars, catVars,
                 syncJobs, purged, sweeps>>

\* the first call of an iteration answers
FeedFetch(w) ==
  /\ worker[w].pc = "fetch"
  /\ Responds(w)
\* the call inside the catch block answers
FeedRefetch(w) ==
  /\ worker[w].pc = "refetch"
  /\ Responds(w)

\* the first call of an iteration throws with a cursor set: cursor = undefined
FeedFetchThrows(w) ==
  /\ worker[w].pc = "fetch"
  /\ CursorSet(worker[w].cursor)
  /\ Len(feed.got) < MaxPages
  /\ feed' = [feed EXCEPT !.sent = Append(@, worker[w].cursor)]
  /\ worker' = [worker EXCEPT ![w].cursor = NoCursor, ![w].pc = "reset"]
  /\ UNCHANGED <<now, jobs, nextJobId, items, enq, hist, txVars, catVars,
                 syncJobs, purged, sweeps>>

\* const accountId = accountByPlaidId.get(tx.account_id);
\* if (!accountId) continue
SkipRecord(w) ==
  /\ worker[w].pc = "apply"
  /\ feed.todo # <<>>
  /\ Head(feed.todo).kind = "upsert"
  /\ Head(feed.todo).entry.account_id # TheAccount
  /\ feed' = [feed EXCEPT !.todo = Tail(@)]
  /\ UNCHANGED <<jobVars, txVars, catVars, syncJobs, purged, sweeps>>

\* upsertPlaidTransaction: its first statement
ApplyEnsureSystemCategory(w) ==
  /\ worker[w].pc = "apply"
  /\ feed.todo # <<>>
  /\ Head(feed.todo).kind = "upsert"
  /\ Head(feed.todo).entry.account_id = TheAccount
  /\ EnsureSystemCategoryStatement(Head(feed.todo).entry.tx)
  /\ UNCHANGED <<jobVars, catVars, retVars>>

\* upsertPlaidTransaction: its second statement
ApplyUpsert(w) ==
  /\ worker[w].pc = "apply"
  /\ InsertOnConflictUpdate
  /\ feed' = [feed EXCEPT !.todo = Tail(@)]
  /\ UNCHANGED <<jobVars, catVars, syncJobs, purged, sweeps>>

\* the DELETE of a removed record
ApplyDelete(w) ==
  /\ worker[w].pc = "apply"
  /\ feed.todo # <<>>
  /\ Head(feed.todo).kind = "delete"
  /\ DeleteStatement(Head(feed.todo).id)
  /\ feed' = [feed EXCEPT !.todo = Tail(@)]
  /\ UNCHANGED <<jobVars, catVars, syncJobs, purged, sweeps>>

\* variant: the loop goes on with the cursor it sent
PageAppliedKeepingCursor(w) ==
  LET syncResponse == feed.got[Len(feed.got)]
  IN /\ worker[w].pc = "apply"
     /\ feed.todo = <<>>
     /\ upsert.pc = "idle"
     /\ worker' = [worker EXCEPT
          ![w].hasMore = syncResponse.has_more,
          ![w].pc = IF syncResponse.has_more THEN "fetch" ELSE "persist"]
     /\ feed' = [feed EXCEPT !.after = Append(@, [txns |-> txns,
                                                  categories |-> categories])]
     /\ UNCHANGED <<now, jobs, nextJobId, items, enq, hist, txVars, catVars,
                    syncJobs, purged, sweeps>>

\* cursor = syncResponse.data.next_cursor; hasMore = syncResponse.data.has_more
PageApplied(w) ==
  LET syncResponse == feed.got[Len(feed.got)]
  IN /\ worker[w].pc = "apply"
     /\ feed.todo = <<>>
     /\ upsert.pc = "idle"
     /\ worker' = [worker EXCEPT
          ![w].cursor = syncResponse.next_cursor,
          ![w].hasMore = syncResponse.has_more,
          ![w].pc = IF syncResponse.has_more THEN "fetch" ELSE "persist"]
     /\ feed' = [feed EXCEPT !.after = Append(@, [txns |-> txns,
                                                  categories |-> categories])]
     /\ UNCHANGED <<now, jobs, nextJobId, items, enq, hist, txVars, catVars,
                    syncJobs, purged, sweeps>>

\* a row the reconciler stored for record tx, under category c with
\* provenance source
StoredRow(tx, c, source) ==
  [ExcludedRow(tx, c) EXCEPT !.category_source = source]

\* "transaction" rows before the run: none; one the user filed under "My";
\* two as the reconciler stored them
StoredTransactions ==
  { <<>>,
    ("tx_1" :> StoredRow(Rec("tx_1", 1250), <<"M", "y">>, "USER")),
    ("tx_1" :> StoredRow(Rec("tx_1", -400), NullStr, "SYSTEM"))
      @@ ("tx_2" :> StoredRow(Rec("tx_2", -400), NullStr, "SYSTEM")) }

\* the item as earlier runs left it: never synced, or with a cursor
StoredItems ==
  {[plaid_cursor |-> NoCursor, last_synced_at |-> NeverSynced]}
    \cup {[plaid_cursor |-> c, last_synced_at |-> 0] : c \in Cursors}

\* processSyncJob has claimed a job of the item and calls the reconciler
InitPages ==
  /\ now = 1
  /\ jobs = <<>> /\ nextJobId = 1 /\ hist = <<>>
  /\ \E item \in StoredItems : items = [i \in ItemIds |-> item]
  /\ worker = [w \in Workers |->
       IF w = "w1"
         THEN [IdleWorker EXCEPT !.pc = "run", !.op = "webhook",
                                 !.item = LinkedItem, !.user_id = ItemUser[LinkedItem]]
         ELSE IdleWorker]
  /\ enq = [p \in Payloads |-> [created |-> 0, ids |-> {}]]
  /\ txns \in StoredTransactions
  /\ categories = InitialCategories
  /\ upsert = IdleUpsert
  /\ InitCat
  /\ syncJobs = <<>> /\ purged = {} /\ sweeps = <<>>
  /\ feed = IdleFeed

NextPages ==
  \/ \E w \in Workers : RunSelectItems(w)
  \/ \E w \in Workers : FeedFetch(w)
  \/ \E w \in Workers : FeedFetchThrows(w)
  \/ \E w \in Workers : FetchFailsNoCursor(w)
  \/ \E w \in Workers : ResetCursor(w)
  \/ \E w \in Workers : FeedRefetch(w)
  \/ \E w \in Workers : RefetchFails(w)
  \/ \E w \in Workers : SkipRecord(w)
  \/ \E w \in Workers : ApplyEnsureSystemCategory(w)
  \/ \E w \in Workers : ApplyUpsert(w)
  \/ \E w \in Workers : ApplyDelete(w)
  \/ \E w \in Workers : PageApplied(w)
  \/ \E w \in Workers : PersistCursor(w)

SpecPages == InitPages /\ [][NextPages]_vars

(* ---------------- categorization/rules.ts: the matcher ---------------- *)
\* category_rule.created_at is kept in tenths of a second after
\* 2026-02-12 10:00:00 UTC
\* rows of category_rule handed to one matcher call: at most MaxRules
MaxRules == 3
\* calls of the matcher on one rule set and transaction
MaxCalls == 2

Digit(n) == CASE n = 0 -> "0" [] n = 1 -> "1" [] n = 2 -> "2" [] n = 3 -> "3"
              [] n = 4 -> "4" [] n = 5 -> "5" [] n = 6 -> "6" [] n = 7 -> "7"
              [] n = 8 -> "8" [] n = 9 -> "9"

\* created_at::text of a TIMESTAMPTZ in a UTC session: date, time to the
\* second, the fraction without trailing zeros if there is one, the offset
TimestampText(t) ==
  LET secs == t \div 10
      frac == t % 10
  IN <<"2", "0", "2", "6", "-", "0", "2", "-", "1", "2", " ", "1", "0", ":",
       "0", "0", ":", Digit(secs \div 10), Digit(secs % 10)>>
       \o (IF frac = 0 THEN <<>> ELSE <<".", Digit(frac)>>)
       \o <<"+", "0", "0">>

\* String.prototype.localeCompare with the runtime's ICU collation (root
\* order): primary weights of the characters that occur in ids and timestamps
CollationRank(c) ==
  CASE c = " " -> 1 [] c = "-" -> 2 [] c = ":" -> 3 [] c = "." -> 4
    [] c = "+" -> 5
    [] c = "0" -> 10 [] c = "1" -> 11 [] c = "2" -> 12 [] c = "3" -> 13
    [] c = "4" -> 14 [] c = "5" -> 15 [] c = "6" -> 16 [] c = "7" -> 17
    [] c = "8" -> 18 [] c = "9" -> 19
    [] c = "a" -> 20 [] c = "b" -> 21 [] c = "c" -> 22 [] c = "d" -> 23
    [] c = "e" -> 24 [] c = "f" -> 25

RECURSIVE localeCompare(_, _)
localeCompare(a, b) ==
  IF a = <<>> THEN (IF b = <<>> THEN 0 ELSE -1)
  ELSE IF b = <<>> THEN 1
  ELSE IF CollationRank(Head(a)) < CollationRank(Head(b)) THEN -1
  ELSE IF CollationRank(Head(a)) > CollationRank(Head(b)) THEN 1
  ELSE localeCompare(Tail(a), Tail(b))

LowerCase(s) == [k \in 1..Len(s) |-> ToLowerChar(s[k])]

\* variant: the value lower-cased but not trimmed
normalizedUntrimmed(value) == IF value = NullStr THEN <<>> ELSE LowerCase(value)

\* rules.ts normalized: value?.trim().toLowerCase() || ""
normalized(value) == IF value = NullStr THEN <<>> ELSE LowerCase(Trim(value))

readFieldValue(rule, tx) ==
  CASE rule.field = "MERCHANT_NAME" -> normalized(tx.merchantName)
    [] rule.field = "ORIGINAL_DESCRIPTION" -> normalized(tx.originalDescription)
    [] rule.field = "ACCOUNT_NAME" -> normalized(tx.accountName)
    [] rule.field = "MCC" -> normalized(tx.mcc)
    [] rule.field = "PLAID_PRIMARY_CATEGORY" -> normalized(tx.plaidPrimaryCategory)
    [] rule.field = "PLAID_DETAILED_CATEGORY" -> normalized(tx.plaidDetailedCategory)
    [] OTHER -> <<>>

\* String.prototype.includes / startsWith / endsWith
Includes(v, p) ==
  \E i \in 1..(Len(v) - Len(p) + 1) : SubSeq(v, i, i + Len(p) - 1) = p
StartsWith(v, p) == Len(p) <= Len(v) /\ SubSeq(v, 1, Len(p)) = p
EndsWith(v, p) == Len(p) <= Len(v) /\ SubSeq(v, Len(v) - Len(p) + 1, Len(v)) = p

\* new RegExp(pattern, "i") for patterns of literals, "." and "(": a "(" that
\* is never closed is a SyntaxError
RegExpCompiles(pattern) == \A k \in 1..Len(pattern) : pattern[k] # "("
\* RegExp.prototype.test, flag i: some substring of v matches
RegExpTest(pattern, v) ==
  \E i \in 1..(Len(v) - Len(pattern) + 1) :
    \A k \in 1..Len(pattern) :
      \/ pattern[k] = "."
      \/ ToLowerChar(pattern[k]) = ToLowerChar(v[i + k - 1])

matchesRule(rule, tx) ==
  LET value == readFieldValue(rule, tx)
      pattern == normalized(rule.pattern)
  IN IF value = <<>> \/ pattern = <<>> THEN FALSE
     ELSE CASE rule.operator = "EQUALS" -> value = pattern
            [] rule.operator = "CONTAINS" -> Includes(value, pattern)
            [] rule.operator = "STARTS_WITH" -> StartsWith(value, pattern)
            [] rule.operator = "ENDS_WITH" -> EndsWith(value, pattern)
            [] rule.operator = "REGEX" ->
                 \* try { new RegExp(rule.pattern, "i").test(value) } catch { false }
                 IF RegExpCompiles(rule.pattern)
                   THEN RegExpTest(rule.pattern, value) ELSE FALSE
            [] OTHER -> FALSE

specificityScore(rule) ==
  LET patternLen == Len(rule.pattern)
  IN CASE rule.operator = "EQUALS" -> 400 + patternLen
       [] rule.operator \in {"STARTS_WITH", "ENDS_WITH"} -> 300 + patternLen
       [] rule.operator = "CONTAINS" -> 200 + patternLen
       [] rule.operator = "REGEX" -> 100 + patternLen
       [] OTHER -> patternLen

\* variants: the comparator without its first test, and without its last one
compareRulesIgnoringPriority(a, b) ==
  LET specificityDelta == specificityScore(b) - specificityScore(a)
  IN IF specificityDelta # 0 THEN specificityDelta
     ELSE IF a.created_at # b.created_at
       THEN localeCompare(a.created_at, b.created_at)
     ELSE localeCompare(a.id, b.id)
compareRulesWithoutId(a, b) ==
  LET specificityDelta == specificityScore(b) - specificityScore(a)
  IN IF a.priority # b.priority THEN a.priority - b.priority
     ELSE IF specificityDelta # 0 THEN specificityDelta
     ELSE 0

compareRules(a, b) ==
  LET specificityDelta == specificityScore(b) - specificityScore(a)
  IN IF a.priority # b.priority THEN a.priority - b.priority
     ELSE IF specificityDelta # 0 THEN specificityDelta
     ELSE IF a.created_at # b.created_at
       THEN localeCompare(a.created_at, b.created_at)
     ELSE localeCompare(a.id, b.id)

\* Array.prototype.sort(compareRules): a stable sort, here by insertion
RECURSIVE InsertSorted(_, _)
InsertSorted(sorted, r) ==
  IF sorted = <<>> THEN <<r>>
  ELSE IF compareRules(r, Head(sorted)) < 0 THEN <<r>> \o sorted
  ELSE <<Head(sorted)>> \o InsertSorted(Tail(sorted), r)
RECURSIVE SortRules(_)
SortRules(list) ==
  IF list = <<>> THEN <<>>
  ELSE InsertSorted(SortRules(SubSeq(list, 1, Len(list) - 1)), list[Len(list)])

\* the result is <<>> for null, <<rule>> for a rule
findBestCategoryRuleFromList(rules, tx) ==
  LET Matching(rule) == matchesRule(rule, tx)
      matches == SelectSeq(rules, Matching)
  IN IF Len(matches) = 0 THEN <<>> ELSE <<SortRules(matches)[1]>>

\* category_rule rows the matcher is run on.  Patterns are stored trimmed,
\* lower-cased and non-empty by every statement that writes them.
RuleRow(id, field, operator, pattern, priority, created) ==
  [id |-> id, category_id |-> <<"M", "y">>, field |-> field,
   operator |-> operator, pattern |-> pattern, priority |-> priority,
   is_active |-> TRUE, created_at |-> created]

RulePool ==
  { RuleRow(<<"0", "1">>, "MERCHANT_NAME", "EQUALS", <<"a", "b">>, 10, 5),
    RuleRow(<<"0", "2">>, "MERCHANT_NAME", "CONTAINS", <<"b">>, 10, 0),
    RuleRow(<<"0", "3">>, "ORIGINAL_DESCRIPTION", "CONTAINS", <<"a", "b">>, 5, 10),
    RuleRow(<<"0", "4">>, "MERCHANT_NAME", "STARTS_WITH", <<"a">>, 10, 5),
    RuleRow(<<"0", "5">>, "MERCHANT_NAME", "ENDS_WITH", <<"b">>, 10, 0),
    RuleRow(<<"0", "a">>, "MERCHANT_NAME", "STARTS_WITH", <<"a">>, 10, 5),
    RuleRow(<<"0", "7">>, "ORIGINAL_DESCRIPTION", "REGEX", <<"a", ".">>, 10, 5),
    RuleRow(<<"0", "8">>, "ORIGINAL_DESCRIPTION", "REGEX", <<"(", "a">>, 5, 0),
    RuleRow(<<"0", "9">>, "MCC", "EQUALS", <<"b">>, 5, 5),
    RuleRow(<<"1", "0">>, "ACCOUNT_NAME", "CONTAINS", <<"a", "b">>, 10, 5),
    RuleRow(<<"1", "1">>, "MERCHANT_NAME", "CONTAINS", <<"a">>, 10, 10) }

\* TransactionMatchInput values the matcher is run on
MatchInput(merchant, description, account, mcc) ==
  [userId |-> TheUser, merchantName |-> merchant,
   originalDescription |-> description, accountName |-> account, mcc |-> mcc,
   plaidPrimaryCategory |-> NullStr, plaidDetailedCategory |-> NullStr]

MatchInputs ==
  { MatchInput(<<" ", "A", "b", " ">>, <<"b", "A", "b">>, <<"a", "b">>, NullStr),
    MatchInput(NullStr, <<"a", "B", " ">>, <<" ">>, <<"b">>),
    MatchInput(<<" ">>, <<"b">>, <<"A", "B">>, <<"b", " ">>),
    MatchInput(<<"a", "b">>, <<"a">>, <<"b">>, <<>>) }

\* SELECT id, category_id, field, operator, pattern, priority, created_at::text
\* FROM category_rule WHERE user_id = $1 AND is_active = TRUE: one row as listed
ListedRule(row) ==
  [id |-> row.id, category_id |-> row.category_id, field |-> row.field,
   operator |-> row.operator, pattern |-> row.pattern,
   priority |-> row.priority, created_at |-> TimestampText(row.created_at)]

ActiveRuleIds == {id \in DOMAIN ruleRows : ruleRows[id].is_active}

\* the statement has no ORDER BY: the rows come in any order
Listings ==
  {q \in [1..Cardinality(ActiveRuleIds) -> {ListedRule(ruleRows[id]) : id \in ActiveRuleIds}] :
     IsInjective(q)}

listActiveCategoryRules ==
  /\ matchTx # <<>>
  /\ \E q \in Listings : ruleList' = q
  /\ UNCHANGED <<matchTx, matchOut, learnOut, ruleRows, recat, changeEvents, jobVars, txVars, retVars>>

\* findBestCategoryRuleFromList(rules, tx) on the rows as last listed
FindBestCategoryRule ==
  /\ matchTx # <<>>
  /\ Len(matchOut) < MaxCalls
  /\ matchOut' = Append(matchOut, findBestCategoryRuleFromList(ruleList, matchTx[1]))
  /\ UNCHANGED <<ruleList, matchTx, learnOut, ruleRows, recat, changeEvents, jobVars, txVars, retVars>>

RuleSets == {S \in SUBSET RulePool : Cardinality(S) <= MaxRules}
RowsById(S) == [id \in {r.id : r \in S} |-> CHOOSE r \in S : r.id = id]

\* the inputs of the matcher: a set of stored rules, listed in some order, and
\* a transaction
InitMatch ==
  /\ InitSync /\ InitRet
  /\ \E S \in RuleSets : ruleRows = RowsById(S)
  /\ ruleList \in Listings
  /\ \E tx \in MatchInputs : matchTx = <<tx>>
  /\ matchOut = <<>>
  /\ learnOut = <<>>
  /\ recat = <<>>
  /\ changeEvents = <<>>

NextMatch ==
  \/ listActiveCategoryRules
  \/ FindBestCategoryRule

SpecMatch == InitMatch /\ [][NextMatch]_vars

(* ------------ categorization/learning.ts: learned rules --------------- *)
\* variant: the value lower-cased but not trimmed
normalizedOrNullUntrimmed(value) ==
  IF value = NullStr \/ value = <<>> THEN NullStr ELSE LowerCase(value)

\* learning.ts normalized: value?.trim().toLowerCase() || null
normalizedOrNull(value) ==
  IF value = NullStr \/ LowerCase(Trim(value)) = <<>>
    THEN NullStr ELSE LowerCase(Trim(value))

LearnedRuleCandidate(field, pattern, priority) ==
  [field |-> field, operator |-> "EQUALS", pattern |-> pattern,
   priority |-> priority]

\* the result is <<>> for null, <<candidate>> for a candidate
buildLearnedRuleCandidate(tx) ==
  LET merchant == normalizedOrNull(tx.merchantName)
      description == normalizedOrNull(tx.originalDescription)
      mcc == normalizedOrNull(tx.mcc)
      plaidDetailed == normalizedOrNull(tx.plaidDetailedCategory)
      plaidPrimary == normalizedOrNull(tx.plaidPrimaryCategory)
  IN IF Truthy(merchant)
       THEN <<LearnedRuleCandidate("MERCHANT_NAME", merchant, 10)>>
     ELSE IF Truthy(description)
       THEN <<LearnedRuleCandidate("ORIGINAL_DESCRIPTION", description, 20)>>
     ELSE IF Truthy(mcc)
       THEN <<LearnedRuleCandidate("MCC", mcc, 30)>>
     ELSE IF Truthy(plaidDetailed)
       THEN <<LearnedRuleCandidate("PLAID_DETAILED_CATEGORY", plaidDetailed, 40)>>
     ELSE IF Truthy(plaidPrimary)
       THEN <<LearnedRuleCandidate("PLAID_PRIMARY_CATEGORY", plaidPrimary, 50)>>
     ELSE <<>>

\* RuleSourceTransaction values: each field missing, blank or with a value
\* to normalise (original_description is NOT NULL)
SourceTransactions ==
  { [merchantName |-> m, originalDescription |-> d, mcc |-> c,
     plaidDetailedCategory |-> pd, plaidPrimaryCategory |-> pp] :
      m \in {NullStr, <<" ">>, <<" ", "A", " ">>},
      d \in {<<>>, <<" ", " ">>, <<"B", " ", "a">>},
      c \in {NullStr, <<>>, <<"b">>},
      pd \in {NullStr, <<" ">>, <<"A", "_", "b", " ">>},
      pp \in {NullStr, <<>>, <<" ", "A", "b">>} }

BuildLearnedRuleCandidate ==
  /\ matchTx # <<>>
  /\ learnOut = <<>>
  /\ learnOut' = <<buildLearnedRuleCandidate(matchTx[1])>>
  /\ UNCHANGED <<ruleList, matchTx, matchOut, ruleRows, recat, changeEvents, jobVars, txVars, retVars>>

\* the input of the learner: the row of the recategorised transaction
InitCandidate ==
  /\ InitSync /\ InitRet
  /\ \E tx \in SourceTransactions : matchTx = <<tx>>
  /\ ruleList = <<>>
  /\ matchOut = <<>>
  /\ learnOut = <<>>
  /\ ruleRows = <<>>
  /\ recat = <<>>
  /\ changeEvents = <<>>

NextCandidate == BuildLearnedRuleCandidate

SpecCandidate == InitCandidate /\ [][NextCandidate]_vars

(* ------------- PATCH /transactions/:transactionId/category ------------ *)
\* recategorisation requests accepted in all
MaxRecats == 3
\* concurrent handlers of the route
Requests == {"q1", "q2"}
\* "transaction" rows of the user, with the columns the route reads and
\* writes: two purchases at one merchant and one elsewhere
RecatRow(merchant) ==
  [merchant_name |-> merchant, original_description |-> <<"B", " ", "a">>,
   mcc |-> NullStr, plaid_detailed_category |-> NullStr,
   plaid_primary_category |-> NullStr,
   category_id |-> NullStr, category_source |-> "SYSTEM",
   category_confidence |-> NoConfidence]
RecatTransactions ==
  ("tx_1" :> RecatRow(<<"A", "b">>)) @@ ("tx_2" :> RecatRow(<<" ", "a", "b">>))
    @@ ("tx_3" :> RecatRow(NullStr))
\* a category id that is not the user's
ForeignCategory == <<"X">>

\* what the route leaves alone
OtherThanRecat ==
  UNCHANGED <<jobVars, categories, upsert, ruleList, matchTx, matchOut, learnOut, retVars>>

IdleRecat ==
  [pc |-> "idle", transactionId |-> NULL, categoryId |-> NullStr,
   createRule |-> FALSE, tx |-> <<>>, rule |-> <<>>]

\* requests in flight past BEGIN
InTransaction(q) == recat[q].pc \in {"event", "rule", "commit"}

\* SELECT ... FROM "transaction" WHERE id = $1 AND user_id = $2
RecatSelectTransaction(q, transactionId, categoryId, createRule) ==
  /\ recat[q].pc = "idle"
  /\ Len(changeEvents) + Cardinality({r \in Requests : recat[r].pc # "idle"}) < MaxRecats
  /\ IF transactionId \in DOMAIN txns
       THEN recat' = [recat EXCEPT ![q] =
              [IdleRecat EXCEPT !.pc = "category", !.transactionId = transactionId,
                                !.categoryId = categoryId, !.createRule = createRule,
                                !.tx = <<txns[transactionId]>>]]
       ELSE \* 404
            recat' = recat
  /\ UNCHANGED <<txns, ruleRows, changeEvents>>
  /\ OtherThanRecat

\* if (categoryId): SELECT 1 FROM category WHERE id = $1 AND user_id = $2
RecatCheckCategory(q) ==
  /\ recat[q].pc = "category"
  /\ IF Truthy(recat[q].categoryId) /\ recat[q].categoryId \notin DOMAIN categories
       THEN \* 400
            recat' = [recat EXCEPT ![q] = IdleRecat]
       ELSE recat' = [recat EXCEPT ![q].pc = "update"]
  /\ UNCHANGED <<txns, ruleRows, changeEvents>>
  /\ OtherThanRecat

\* BEGIN; UPDATE "transaction" SET category_id = $3, category_source = 'USER',
\* category_confidence = NULL WHERE id = $1 AND user_id = $2.  The statement
\* waits while another open transaction has updated the row; its write is
\* seen by others at COMMIT.
RecatUpdate(q) ==
  /\ recat[q].pc = "update"
  /\ \A r \in Requests \ {q} :
       InTransaction(r) => recat[r].transactionId # recat[q].transactionId
  /\ recat' = [recat EXCEPT ![q].pc = "event"]
  /\ UNCHANGED <<txns, ruleRows, changeEvents>>
  /\ OtherThanRecat

\* INSERT INTO category_change_event (...), seen by others at COMMIT
RecatInsertEvent(q) ==
  /\ recat[q].pc = "event"
  /\ recat' = [recat EXCEPT ![q].pc =
       IF recat[q].createRule /\ Truthy(recat[q].categoryId) THEN "rule" ELSE "commit"]
  /\ UNCHANGED <<txns, ruleRows, changeEvents>>
  /\ OtherThanRecat

\* the (user, category, field, operator, pattern) of a rule row or candidate
\* in category c; the user is the same throughout
RuleTuple(c, r) == <<TheUser, c, r.field, r.operator, r.pattern>>

\* WHERE NOT EXISTS (SELECT 1 FROM category_rule WHERE ... AND is_active =
\* TRUE): under READ COMMITTED the subquery sees the committed rows (and the
\* request's own, of which there are none before this statement), not those
\* other open transactions have inserted
VisibleRuleRows == {ruleRows[id] : id \in DOMAIN ruleRows}

ActiveRuleExists(c, candidate) ==
  \E row \in VisibleRuleRows :
    /\ row.is_active
    /\ RuleTuple(row.category_id, row) = RuleTuple(c, candidate)

\* const ruleCandidate = buildLearnedRuleCandidate(...); if (ruleCandidate)
\* INSERT INTO category_rule (...) SELECT ... WHERE NOT EXISTS (...)
RecatInsertRule(q) ==
  LET tx == recat[q].tx[1]
      ruleCandidate == buildLearnedRuleCandidate(
        [merchantName |-> tx.merchant_name,
         originalDescription |-> tx.original_description,
         mcc |-> tx.mcc,
         plaidDetailedCategory |-> tx.plaid_detailed_category,
         plaidPrimaryCategory |-> tx.plaid_primary_category])
  IN /\ recat[q].pc = "rule"
     /\ IF ruleCandidate # <<>>
             /\ ~ActiveRuleExists(recat[q].categoryId, ruleCandidate[1])
          THEN recat' = [recat EXCEPT ![q].pc = "commit",
                 ![q].rule = <<[category_id |-> recat[q].categoryId,
                                field |-> ruleCandidate[1].field,
                                operator |-> ruleCandidate[1].operator,
                                pattern |-> ruleCandidate[1].pattern,
                                priority |-> ruleCandidate[1].priority,
                                is_active |-> TRUE,
                                learned_from_transaction_id |-> recat[q].transactionId,
                                created_by |-> "USER",
                                created_at |-> now]>>]
          ELSE recat' = [recat EXCEPT ![q].pc = "commit"]
     /\ UNCHANGED <<txns, ruleRows, changeEvents>>
     /\ OtherThanRecat

\* COMMIT: the three writes become visible, the row lock is released
RecatCommit(q) ==
  LET x == recat[q].transactionId
  IN /\ recat[q].pc = "commit"
     /\ txns' = [txns EXCEPT ![x].category_id = recat[q].categoryId,
                             ![x].category_source = "USER",
                             ![x].category_confidence = NoConfidence]
     /\ changeEvents' = Append(changeEvents,
          [transaction_id |-> x, old_category_id |-> recat[q].tx[1].category_id,
           new_category_id |-> recat[q].categoryId,
           create_rule |-> recat[q].createRule])
     /\ ruleRows' = IF recat[q].rule = <<>> THEN ruleRows
                    ELSE ruleRows @@ ((Cardinality(DOMAIN ruleRows) + 1) :> recat[q].rule[1])
     /\ recat' = [recat EXCEPT ![q] = IdleRecat]
     /\ OtherThanRecat

\* PATCH /rules/:ruleId with isActive = false:
\* UPDATE category_rule SET ... is_active = $8 WHERE id = $1 AND user_id = $2
DeactivateRule(id) ==
  /\ id \in DOMAIN ruleRows
  /\ ruleRows[id].is_active
  /\ ruleRows' = [ruleRows EXCEPT ![id].is_active = FALSE]
  /\ UNCHANGED <<txns, recat, changeEvents>>
  /\ OtherThanRecat

\* the tables the route works on: the user's categories and transactions
InitRecat ==
  /\ now = 0
  /\ jobs = <<>> /\ nextJobId = 1 /\ hist = <<>>
  /\ items = [i \in ItemIds |-> [plaid_cursor |-> NoCursor, last_synced_at |-> NeverSynced]]
  /\ worker = [w \in Workers |-> IdleWorker]
  /\ enq = [p \in Payloads |-> [created |-> 0, ids |-> {}]]
  /\ txns = RecatTransactions
  /\ categories = InitialCategories
  /\ upsert = IdleUpsert
  /\ ruleList = <<>> /\ matchTx = <<>> /\ matchOut = <<>> /\ learnOut = <<>>
  /\ ruleRows = <<>>
  /\ recat = [q \in Requests |-> IdleRecat]
  /\ changeEvents = <<>>
  /\ InitRet

RecatCategoryIds == DOMAIN InitialCategories \cup {NullStr, ForeignCategory}

NextRecat ==
  \/ \E q \in Requests, x \in DOMAIN RecatTransactions, c \in RecatCategoryIds,
       createRule \in BOOLEAN : RecatSelectTransaction(q, x, c, createRule)
  \/ \E q \in Requests : RecatCheckCategory(q)
  \/ \E q \in Requests : RecatUpdate(q)
  \/ \E q \in Requests : RecatInsertEvent(q)
  \/ \E q \in Requests : RecatInsertRule(q)
  \/ \E q \in Requests : RecatCommit(q)
  \/ \E id \in 1..MaxRecats : DeactivateRule(id)

SpecRecat == InitRecat /\ [][NextRecat]_vars

(* ------------- the route next to upsertPlaidTransaction --------------- *)
\* PATCH /transactions/:transactionId/category, statement by statement,
\* next to the two statements of upsertPlaidTransaction on the same rows.
\* an open transaction of the route has updated row x and not committed
RowLocked(x) ==
  \E q \in Requests : InTransaction(q) /\ recat[q].transactionId = x

\* recategorisation requests per behaviour
MaxRaceRecats == 2
\* the record both sides work on
RaceId == "tx_1"
RaceRecords == {tx \in UpstreamTxs : tx.transaction_id = RaceId}
\* the categories the requests name: one of the user's, one the reconciler
\* derives, none, and one of another user
RaceCategoryIds ==
  {<<"M", "y">>, <<"A", " ", "B", " ", "A">>, NullStr, ForeignCategory}

\* INSERT INTO "transaction" ... ON CONFLICT DO UPDATE: the conflict update
\* waits for the row lock of an open transaction and then works on the
\* committed row
UpsertWhenUnlocked ==
  /\ upsert.pc = "statement"
  /\ ~RowLocked(upsert.tx[1].transaction_id)
  /\ UpsertStatement

\* a request for the record, without createRule
RaceSelectTransaction(q, c) ==
  /\ Len(changeEvents)
       + Cardinality({r \in Requests : recat[r].pc # "idle"}) < MaxRaceRecats
  /\ RecatSelectTransaction(q, RaceId, c, FALSE)

InitRace ==
  /\ now = 0
  /\ jobs = <<>> /\ nextJobId = 1 /\ hist = <<>>
  /\ items = [i \in ItemIds |-> [plaid_cursor |-> NoCursor, last_synced_at |-> NeverSynced]]
  /\ worker = [w \in Workers |-> IdleWorker]
  /\ enq = [p \in Payloads |-> [created |-> 0, ids |-> {}]]
  /\ txns \in StoredTransactions
  /\ categories = InitialCategories
  /\ upsert = IdleUpsert
  /\ ruleList = <<>> /\ matchTx = <<>> /\ matchOut = <<>> /\ learnOut = <<>>
  /\ ruleRows = <<>>
  /\ recat = [q \in Requests |-> IdleRecat]
  /\ changeEvents = <<>>
  /\ InitRet

NextRace ==
  \/ \E q \in Requests, c \in RaceCategoryIds : RaceSelectTransaction(q, c)
  \/ \E q \in Requests : RecatCheckCategory(q)
  \/ \E q \in Requests : RecatUpdate(q)
  \/ \E q \in Requests : RecatInsertEvent(q)
  \/ \E q \in Requests : RecatCommit(q)
  \/ \E tx \in RaceRecords : EnsureSystemCategory(tx)
  \/ UpsertWhenUnlocked

SpecRace == InitRace /\ [][NextRace]_vars

(* ------------------- POST /data/retention/purge ----------------------- *)
\* The sync_job table statement by statement, next to the retention purge.
\* The clock of this specification counts days, the unit of the purge's
\* input; a row holds the columns the purge and the status transitions read.
MaxSyncJobs == 3
MaxRetentionDays == 2
MaxDays == 3
RetentionUsers == {"user_1", "user_2"}
TerminalStatuses == {"COMPLETED", "FAILED"}
\* max_attempts of the rows: one that fails at once and one that retries
SyncJobMaxAttempts == {1, 2}

\* new Date(now.getTime() - days * 24 * 60 * 60 * 1000)
retentionCutoffDate(days) == now - days

\* what the sync core and the purge leave alone
OtherThanSyncJobs ==
  UNCHANGED <<jobs, nextJobId, items, worker, enq, hist, txVars, catVars>>

\* a day passes
DayPasses ==
  /\ now < MaxDays
  /\ now' = now + 1
  /\ UNCHANGED retVars
  /\ OtherThanSyncJobs

\* ids are random UUIDs: one that was deleted is not issued again
IssuedSyncJobIds == DOMAIN syncJobs \cup {p.id : p \in purged}

\* INSERT INTO sync_job (...): status PENDING, attempt_count 0, updated_at
\* DEFAULT now()
InsertSyncJob(u, m) ==
  LET id == Cardinality(IssuedSyncJobIds) + 1
  IN /\ id <= MaxSyncJobs
     /\ syncJobs' = (id :> [user_id |-> u, status |-> "PENDING", attempt_count |-> 0,
                            max_attempts |-> m, updated_at |-> now]) @@ syncJobs
     /\ UNCHANGED <<now, purged, sweeps, feed>>
     /\ OtherThanSyncJobs

\* BEFORE UPDATE ON sync_job FOR EACH ROW: NEW.updated_at = now()
set_updated_at(row) == [row EXCEPT !.updated_at = now]

\* UPDATE sync_job SET status = 'PROCESSING' WHERE id = $1 AND status IN
\* ('PENDING','RETRY') AND next_run_at <= now(); a retry delay (at most
\* BackoffCapSeconds) is below the unit of this clock
ClaimSyncJob(id) ==
  /\ id \in DOMAIN syncJobs
  /\ syncJobs[id].status \in {"PENDING", "RETRY"}
  /\ syncJobs' = [syncJobs EXCEPT ![id] =
       set_updated_at([syncJobs[id] EXCEPT !.status = "PROCESSING"])]
  /\ UNCHANGED <<now, purged, sweeps, feed>>
  /\ OtherThanSyncJobs

\* UPDATE sync_job SET status = 'COMPLETED', attempt_count = attempt_count + 1
\* WHERE id = $1, by the worker that claimed the row
CompleteSyncJob(id) ==
  /\ id \in DOMAIN syncJobs
  /\ syncJobs[id].status = "PROCESSING"
  /\ syncJobs' = [syncJobs EXCEPT ![id] =
       set_updated_at([syncJobs[id] EXCEPT !.status = "COMPLETED",
                                           !.attempt_count = @ + 1])]
  /\ UNCHANGED <<now, purged, sweeps, feed>>
  /\ OtherThanSyncJobs

\* UPDATE sync_job SET status = $2, attempt_count = $3 ... WHERE id = $1, by
\* the worker that claimed the row
FailSyncJob(id) ==
  /\ id \in DOMAIN syncJobs
  /\ syncJobs[id].status = "PROCESSING"
  /\ LET nextAttempt == syncJobs[id].attempt_count + 1
         st == IF FinalFailure(nextAttempt, syncJobs[id].max_attempts)
                 THEN "FAILED" ELSE "RETRY"
     IN syncJobs' = [syncJobs EXCEPT ![id] =
          set_updated_at([syncJobs[id] EXCEPT !.status = st,
                                              !.attempt_count = nextAttempt])]
  /\ UNCHANGED <<now, purged, sweeps, feed>>
  /\ OtherThanSyncJobs

\* variant: the purge without its status test
PurgeWhereAnyStatus(row, userId, syncJobCutoff) ==
  /\ row.user_id = userId
  /\ row.updated_at < syncJobCutoff

\* WHERE user_id = $1 AND status IN ('COMPLETED', 'FAILED')
\*   AND updated_at < $2::timestamptz
PurgeWhere(row, userId, syncJobCutoff) ==
  /\ row.user_id = userId
  /\ row.status \in TerminalStatuses
  /\ row.updated_at < syncJobCutoff

\* POST /data/retention/purge of user userId with syncJobDays: DELETE FROM
\* sync_job; purged keeps what each call deleted, with the caller and cutoff
PurgeRetention(userId, syncJobDays) ==
  LET syncJobCutoff == retentionCutoffDate(syncJobDays)
      deleted == {id \in DOMAIN syncJobs : PurgeWhere(syncJobs[id], userId, syncJobCutoff)}
  IN /\ syncJobs' = [id \in DOMAIN syncJobs \ deleted |-> syncJobs[id]]
     /\ purged' = purged \cup
          {[id |-> id, caller |-> userId, cutoff |-> syncJobCutoff] : id \in deleted}
     /\ UNCHANGED <<now, sweeps, feed>>
     /\ OtherThanSyncJobs

InitPurge == InitSync /\ InitCat /\ InitRet

NextPurge ==
  \/ DayPasses
  \/ \E u \in RetentionUsers, m \in SyncJobMaxAttempts : InsertSyncJob(u, m)
  \/ \E id \in 1..MaxSyncJobs : ClaimSyncJob(id)
  \/ \E id \in 1..MaxSyncJobs : CompleteSyncJob(id)
  \/ \E id \in 1..MaxSyncJobs : FailSyncJob(id)
  \/ \E u \in RetentionUsers, d \in 1..MaxRetentionDays : PurgeRetention(u, d)

SpecPurge == InitPurge /\ [][NextPurge]_vars

(* ====================================================================== *)
(*                               Properties                               *)
(* ====================================================================== *)
Terminal == {"COMPLETED", "FAILED"}
NonTerminal == {"PENDING", "RETRY", "PROCESSING"}
Holders(j) == {w \in Workers : worker[w].pc \in RunPcs /\ worker[w].jobId = j}

\* C1: enqueueWebhookSyncJob calls with the same payload for a linked item,
\* sequential or concurrent, leave exactly one sync_job row with that
\* fingerprint; exactly one of them returned created=true, and all of them
\* returned the id of that row.
C1_EnqueueIdempotent ==
  \A p \in Payloads :
    LET rows == JobsWithKey(buildWebhookIdempotencyKey(p))
    IN /\ Cardinality(rows) <= 1
       /\ enq[p].ids \subseteq rows
       /\ enq[p].ids # {} => /\ Cardinality(rows) = 1
                             /\ Cardinality(enq[p].ids) = 1
                             /\ enq[p].created = 1

\* two handlers hold the results of concurrent enqueues of one payload
C1_Witness ==
  \E a, b \in Workers :
    /\ a # b
    /\ worker[a].pc = "claim" /\ worker[b].pc = "claim"
    /\ worker[a].op = "webhook" /\ worker[b].op = "webhook"
    /\ worker[a].payload = worker[b].payload
    /\ worker[a].created /\ ~worker[b].created
    /\ worker[a].jobId = worker[b].jobId

\* C2: however many workers call processSyncJob on one job id, at most one
\* of them holds the claim at a time: at most one is executing the reconciler
\* for the job, and the job is PROCESSING while it does.
C2_SingleClaimHolder ==
  \A j \in JobIds :
    /\ Cardinality(Holders(j)) <= 1
    /\ Holders(j) # {} => jobs[j].status = "PROCESSING"

\* one worker runs the reconciler for a job, another got claimed=false on it
C2_Witness ==
  \E a, b \in Workers :
    /\ a # b
    /\ worker[a].pc \in {"fetch", "refetch"}
    /\ worker[b].pc = "returned" /\ worker[b].ret = "unclaimed"
    /\ worker[b].jobId = worker[a].jobId

\* the columns of a stored row that an upstream record refreshes: amount,
\* currency, dates, descriptive fields, pending flag, upstream labels
RefreshedBy(row, tx) ==
  /\ row.amount = tx.data.amount
  /\ row.iso_currency_code =
       (IF tx.data.iso_currency_code = NULL THEN "USD" ELSE tx.data.iso_currency_code)
  /\ row.transaction_date = tx.data.date
  /\ row.authorized_date = tx.data.authorized_date
  /\ row.merchant_name = tx.data.merchant_name
  /\ row.original_description = tx.data.name
  /\ row.mcc = tx.data.mcc
  /\ row.pending = tx.data.pending
  /\ row.plaid_primary_category = tx.data.primary
  /\ row.plaid_detailed_category = tx.data.detailed

SameCategory(a, b) ==
  /\ a.category_id = b.category_id
  /\ a.category_source = b.category_source
  /\ a.category_confidence = b.category_confidence

\* C3: the upsert of an upstream record whose external id is stored with
\* provenance USER or RULE keeps the stored category, provenance and
\* confidence and replaces amount, dates, descriptive fields and pending flag
\* by the upstream values.
C3_ProtectedUpsert ==
  [][(upsert.pc = "statement" /\ upsert'.pc = "idle") =>
       LET tx == upsert.tx[1]
           x == tx.transaction_id
       IN (x \in DOMAIN txns /\ txns[x].category_source \in {"USER", "RULE"}) =>
            /\ x \in DOMAIN txns'
            /\ SameCategory(txns'[x], txns[x])
            /\ RefreshedBy(txns'[x], tx)]_vars

\* a row the user had put in a category of their own was refreshed by a record
\* with another amount and date and a label of its own
C3_Witness ==
  /\ upsert.pc = "idle" /\ upsert.replaced # <<>> /\ upsert.tx # <<>>
  /\ LET old == upsert.replaced[1]
         tx == upsert.tx[1]
         x == tx.transaction_id
     IN /\ old.category_source = "USER"
        /\ old.category_id = <<"M", "y">>
        /\ old.amount # tx.data.amount
        /\ old.transaction_date # tx.data.date
        /\ upsert.categoryId \notin {NullStr, old.category_id}
        /\ x \in DOMAIN txns
        /\ SameCategory(txns[x], old)
        /\ RefreshedBy(txns[x], tx)

IsPrefix(a, b) == Len(a) <= Len(b) /\ \A k \in 1..Len(a) : a[k] = b[k]
StrictlyIncreasing(q) == \A k \in 1..(Len(q) - 1) : q[k] < q[k + 1]
\* PENDING, then PROCESSING and RETRY (m - 1) times, then PROCESSING, FAILED
FailurePattern(m) ==
  [k \in 1..(2 * m + 1) |->
     IF k = 1 THEN "PENDING"
     ELSE IF k = 2 * m + 1 THEN "FAILED"
     ELSE IF k % 2 = 0 THEN "PROCESSING" ELSE "RETRY"]

\* C4: a job all of whose executions failed went PENDING, PROCESSING, then
\* (RETRY, PROCESSING) max_attempts - 1 times, then FAILED; the next_run_at
\* stored at each RETRY is greater than the one stored at the RETRY before;
\* with max_attempts = 1 the first failure leads to FAILED.
C4_FailureTrail ==
  \A j \in JobIds :
    hist[j].succeeded = 0 =>
      /\ IsPrefix(hist[j].trail, FailurePattern(jobs[j].max_attempts))
      /\ hist[j].trail[Len(hist[j].trail)] = jobs[j].status
      /\ StrictlyIncreasing(hist[j].retryAts)
      /\ jobs[j].status = "FAILED" =>
           /\ hist[j].trail = FailurePattern(jobs[j].max_attempts)
           /\ Len(hist[j].retryAts) = jobs[j].max_attempts - 1

\* a job that failed three times and went through two RETRYs
C4_Witness ==
  \E j \in JobIds :
    /\ jobs[j].status = "FAILED"
    /\ jobs[j].max_attempts = 3
    /\ Len(hist[j].retryAts) = 2

Count(q, x) == Cardinality({k \in 1..Len(q) : q[k] = x})

\* C5: over all interleavings of webhook deliveries and sweeps the reconciler
\* is invoked for a job at most max_attempts times, succeeds for it at most
\* once, and is not invoked once the job is COMPLETED or FAILED.
C5_BoundedExecutions ==
  \A j \in JobIds :
    /\ hist[j].invoked <= jobs[j].max_attempts
    /\ hist[j].succeeded <= 1
    /\ hist[j].invoked = Count(hist[j].trail, "PROCESSING")
    /\ \A k \in 1..(Len(hist[j].trail) - 1) : hist[j].trail[k] \notin Terminal

\* a job used all its attempts, the last one succeeding, and a later
\* processSyncJob on it was turned away
C5_Witness ==
  \E j \in JobIds, w \in Workers :
    /\ jobs[j].status = "COMPLETED"
    /\ jobs[j].max_attempts >= 2
    /\ hist[j].invoked = jobs[j].max_attempts
    /\ worker[w].pc = "returned" /\ worker[w].ret = "unclaimed"
    /\ worker[w].jobId = j

AllowedTransitions ==
  {<<"PENDING", "PROCESSING">>, <<"RETRY", "PROCESSING">>,
   <<"PROCESSING", "COMPLETED">>, <<"PROCESSING", "RETRY">>,
   <<"PROCESSING", "FAILED">>}

\* C6: enqueue, claim, execute and sweep change a job's status only from
\* PENDING or RETRY to PROCESSING and from PROCESSING to COMPLETED, RETRY or
\* FAILED; a COMPLETED or FAILED job keeps its status (and its row).
C6_OnlyAllowedTransitions ==
  [][\A j \in JobIds :
       /\ j \in DOMAIN jobs'
       /\ jobs'[j].status # jobs[j].status =>
            <<jobs[j].status, jobs'[j].status>> \in AllowedTransitions]_vars

\* a job went through RETRY to COMPLETED and a later call found it terminal
C6_Witness ==
  \E j \in JobIds, w \in Workers :
    /\ hist[j].trail = <<"PENDING", "PROCESSING", "RETRY", "PROCESSING", "COMPLETED">>
    /\ worker[w].pc = "returned" /\ worker[w].ret = "unclaimed"
    /\ worker[w].jobId = j

\* C7: a job that is PENDING, RETRY or PROCESSING has
\* attempt_count <= max_attempts, whatever its max_attempts >= 1.
C7_AttemptsWithinMax ==
  \A j \in JobIds :
    /\ jobs[j].max_attempts >= 1
    /\ jobs[j].status \in NonTerminal => jobs[j].attempt_count <= jobs[j].max_attempts

\* a job on its last permitted attempt after earlier failures
C7_Witness ==
  \E j \in JobIds :
    /\ jobs[j].status = "PROCESSING"
    /\ jobs[j].attempt_count >= 1
    /\ jobs[j].attempt_count = jobs[j].max_attempts - 1

\* C8: no transition of a job lowers its next_run_at, the final one to
\* FAILED (which stores the current time) included.
C8_NextRunMonotonic ==
  [][\A j \in JobIds : jobs'[j].next_run_at >= jobs[j].next_run_at]_vars

\* a job failed for good after a RETRY: its next_run_at is the time of the
\* final failure, not below the one stored at the RETRY
C8_Witness ==
  \E j \in JobIds :
    /\ jobs[j].status = "FAILED"
    /\ Len(hist[j].retryAts) >= 1
    /\ jobs[j].next_run_at >= hist[j].retryAts[Len(hist[j].retryAts)]
    /\ jobs[j].next_run_at = now

\* C9: one reconciliation run of one item clears the cursor and refetches
\* from the beginning at most once.
C9_AtMostOneRecoveryPerRun ==
  \A w \in Workers : worker[w].resets <= 1

\* the stored row of item i is written by worker w's final cursor statement
PersistWrite(w, i) ==
  /\ worker[w].pc = "persist" /\ worker'[w].pc = "complete"
  /\ worker[w].item = i
  /\ ~worker[w].hasMore
  /\ items'[i] = [plaid_cursor |-> worker[w].cursor, last_synced_at |-> now]

\* the stored cursor of item i is cleared by worker w's drift reset
ResetWrite(w, i) ==
  /\ worker[w].pc = "reset" /\ worker'[w].pc = "refetch"
  /\ worker[w].item = i
  /\ items'[i] = [items[i] EXCEPT !.plaid_cursor = NoCursor]

\* C10: the stored cursor of an item changes only by the statement after the
\* page loop, which stores the last next_cursor (has_more = false) and the
\* current time, or by a drift reset, which stores NULL and leaves
\* last_synced_at; a run that ends in an error without a drift reset has not
\* written the item.
C10_CursorWrites ==
  [][/\ \A i \in ItemIds :
          items'[i] # items[i] =>
            \E w \in Workers : PersistWrite(w, i) \/ ResetWrite(w, i)
     /\ \A w \in Workers :
          (worker[w].pc \in RunPcs /\ worker[w].resets = 0 /\ worker'[w].pc = "fail")
            => items' = items]_vars

\* a run that found no stored cursor failed on its first fetch, in a later
\* attempt of the job
C10_Witness ==
  \E w \in Workers :
    /\ worker[w].pc = "fail"
    /\ worker[w].resets = 0
    /\ worker[w].attempt_count >= 1
    /\ items[worker[w].item] = [plaid_cursor |-> NoCursor, last_synced_at |-> NeverSynced]

\* C11: when the reconciler throws inside processSyncJob the error is caught:
\* the statement that follows stores the error's message in last_error, counts
\* the attempt and moves the job to RETRY or FAILED, and processSyncJob returns
\* claimed = true, completed = false instead of throwing.
C11_ReconcilerErrorRecorded ==
  [][\A w \in Workers :
       /\ worker'[w].error # NULL => worker'[w].pc = "fail"
       /\ (worker[w].pc = "fail" /\ worker'[w].pc # "fail") =>
            LET j == worker[w].jobId
                result == SyncJobResult(worker'[w].ret)
            IN /\ worker'[w].pc = "returned"
               /\ result.claimed /\ ~result.completed
               /\ result.failed = (jobs'[j].status = "FAILED")
               /\ jobs'[j].status \in {"RETRY", "FAILED"}
               /\ jobs'[j].last_error = worker[w].error
               /\ jobs'[j].attempt_count = jobs[j].attempt_count + 1]_vars

\* a job is in RETRY with the message of an unguarded refetch failure, and the
\* call that ran it has returned
C11_Witness ==
  \E w \in Workers :
    /\ worker[w].pc = "returned" /\ worker[w].ret = "retry"
    /\ jobs[worker[w].jobId].status = "RETRY"
    /\ jobs[worker[w].jobId].last_error = "UPSTREAM"

\* what processSyncJob returns after an upstream failure
UpstreamFailureResults == {SyncJobResult("retry"), SyncJobResult("failed")}
\* the messages of upstream failures
UpstreamMessages == {"PLAID_ERROR", "UPSTREAM"}

\* C12: a reconciliation that finds no linked items raises NO_ITEMS before
\* any fetch and without having written anything; when that happens inside a
\* job's execution, what processSyncJob leaves behind (its result and the
\* job's row) differs from what an upstream failure leaves behind, and the job
\* is not put into RETRY.
C12_NoItemsDistinct ==
  [][\A w \in Workers :
       /\ (worker'[w].error = "NO_ITEMS" /\ worker[w].error # "NO_ITEMS") =>
            /\ worker[w].pc = "run"
            /\ UNCHANGED <<items, jobs, txVars, catVars, retVars>>
       /\ (worker[w].pc = "fail" /\ worker[w].error = "NO_ITEMS"
             /\ worker'[w].pc = "returned") =>
            LET j == worker[w].jobId
            IN /\ \/ SyncJobResult(worker'[w].ret) \notin UpstreamFailureResults
                  \/ /\ j \in DOMAIN jobs'
                     /\ jobs'[j].last_error \notin UpstreamMessages
               /\ j \in DOMAIN jobs' => jobs'[j].status # "RETRY"]_vars

\* the value of the rule's field in the transaction, "" when missing
FieldValue(rule, tx) ==
  LET v == CASE rule.field = "MERCHANT_NAME" -> tx.merchantName
             [] rule.field = "ORIGINAL_DESCRIPTION" -> tx.originalDescription
             [] rule.field = "ACCOUNT_NAME" -> tx.accountName
             [] rule.field = "MCC" -> tx.mcc
             [] rule.field = "PLAID_PRIMARY_CATEGORY" -> tx.plaidPrimaryCategory
             [] rule.field = "PLAID_DETAILED_CATEGORY" -> tx.plaidDetailedCategory
  IN IF v = NullStr THEN <<>> ELSE v

\* value satisfies the operator against pattern
Satisfies(operator, value, pattern) ==
  CASE operator = "EQUALS" -> value = pattern
    [] operator = "CONTAINS" ->
         \E i \in 1..Len(value), j \in 0..Len(value) : SubSeq(value, i, j) = pattern
    [] operator = "STARTS_WITH" -> \E j \in 0..Len(value) : SubSeq(value, 1, j) = pattern
    [] operator = "ENDS_WITH" ->
         \E i \in 1..(Len(value) + 1) : SubSeq(value, i, Len(value)) = pattern
    [] operator = "REGEX" ->
         /\ "(" \notin Range(pattern)
         /\ \E i \in 1..Len(value), j \in 0..Len(value) :
              LET sub == SubSeq(value, i, j)
              IN /\ Len(sub) = Len(pattern)
                 /\ \A k \in 1..Len(sub) : pattern[k] \in {".", sub[k]}

\* the rule matches the transaction: the trimmed, lower-cased value of its
\* field is non-empty and satisfies its operator against the trimmed,
\* lower-cased pattern
RuleMatches(rule, tx) ==
  LET value == LowerCase(TrimRight(TrimLeft(FieldValue(rule, tx))))
      pattern == LowerCase(TrimRight(TrimLeft(rule.pattern)))
  IN value # <<>> /\ Satisfies(rule.operator, value, pattern)

ListedRules == {ListedRule(ruleRows[id]) : id \in ActiveRuleIds}
MatchingRules == {r \in ListedRules : RuleMatches(r, matchTx[1])}

\* C13: for a set of rules with distinct ids and a transaction, every call of
\* findBestCategoryRuleFromList returns the same rule or none, in whatever
\* order the rules are listed.
C13_MatcherDeterministic ==
  matchTx # <<>> =>
    \A q \in Listings :
      /\ findBestCategoryRuleFromList(q, matchTx[1])
           = findBestCategoryRuleFromList(ruleList, matchTx[1])
      /\ \A k \in 1..Len(matchOut) :
           matchOut[k] = findBestCategoryRuleFromList(q, matchTx[1])

\* two calls returned the same one of two rules that tie on priority, score
\* and creation time, the last listing having the other one first
C13_Witness ==
  /\ Len(matchOut) = 2
  /\ matchOut[1] # <<>>
  /\ Len(ruleList) >= 2
  /\ ruleList[1] # matchOut[1][1]
  /\ ruleList[1] \in MatchingRules
  /\ ruleList[1].priority = matchOut[1][1].priority
  /\ specificityScore(ruleList[1]) = specificityScore(matchOut[1][1])
  /\ ruleList[1].created_at = matchOut[1][1].created_at

\* C14: of two rules that both match the transaction, the one with the greater
\* priority number is never returned, whatever their operators, pattern
\* lengths, creation times and ids.
C14_LowerPriorityWins ==
  \A k \in 1..Len(matchOut) :
    \A a, b \in MatchingRules :
      a.priority < b.priority => matchOut[k] # <<b>>

\* a CONTAINS rule of lower priority number was returned though an EQUALS rule
\* with a longer pattern, an earlier creation time and a lower id matches too
C14_Witness ==
  /\ Len(matchOut) >= 1
  /\ matchOut[1] # <<>>
  /\ \E b \in MatchingRules :
       LET a == matchOut[1][1]
       IN /\ a.priority < b.priority
          /\ specificityScore(b) > specificityScore(a)
          /\ localeCompare(b.created_at, a.created_at) < 0
          /\ localeCompare(b.id, a.id) < 0

\* the instant at which a listed rule was created
CreatedAt(rule) == ruleRows[rule.id].created_at
\* operator base plus pattern length
Score(rule) ==
  Len(rule.pattern) +
    CASE rule.operator = "EQUALS" -> 400
      [] rule.operator \in {"STARTS_WITH", "ENDS_WITH"} -> 300
      [] rule.operator = "CONTAINS" -> 200
      [] rule.operator = "REGEX" -> 100

\* the score part and the id part of C15, without the creation time
C15_ScoreThenId ==
  \A k \in 1..Len(matchOut) :
    matchOut[k] # <<>> =>
      LET r == matchOut[k][1]
          peers == {m \in MatchingRules : m.priority = r.priority}
          top == {m \in peers : \A n \in peers : Score(m) >= Score(n)}
          same == {m \in top : CreatedAt(m) = CreatedAt(r)}
      IN /\ r \in top
         /\ \A n \in same : localeCompare(r.id, n.id) <= 0

\* C15: among the matching rules of equal priority the matcher returns the
\* one with the highest score (operator base plus pattern length), among those
\* of equal score the one created earliest, among those the one with the
\* lowest id; an EQUALS rule beats a CONTAINS rule of equal priority whose
\* pattern is not longer.
C15_BestOfEqualPriority ==
  \A k \in 1..Len(matchOut) :
    matchOut[k] # <<>> =>
      LET r == matchOut[k][1]
          peers == {m \in MatchingRules : m.priority = r.priority}
          top == {m \in peers : \A n \in peers : Score(m) >= Score(n)}
          oldest == {m \in top : \A n \in top : CreatedAt(m) <= CreatedAt(n)}
      IN /\ r \in oldest
         /\ \A n \in oldest : localeCompare(r.id, n.id) <= 0
         /\ \A a, b \in peers :
              (/\ a.operator = "EQUALS" /\ b.operator = "CONTAINS"
               /\ Len(b.pattern) <= Len(a.pattern)) => r # b

\* C16: a rule matches a transaction exactly when the trimmed, lower-cased
\* value of its field is non-empty and satisfies its operator against the
\* trimmed, lower-cased pattern; a rule whose field value is empty or missing
\* never matches, nor does a REGEX rule whose pattern does not compile; the
\* matcher returns none when no rule matches and a matching rule otherwise.
C16_MatchExactly ==
  matchTx # <<>> =>
    /\ \A r \in ListedRules :
         /\ matchesRule(r, matchTx[1]) <=> RuleMatches(r, matchTx[1])
         /\ TrimLeft(FieldValue(r, matchTx[1])) = <<>> => ~matchesRule(r, matchTx[1])
         /\ (r.operator = "REGEX" /\ "(" \in Range(r.pattern))
              => ~matchesRule(r, matchTx[1])
    /\ \A k \in 1..Len(matchOut) :
         IF MatchingRules = {} THEN matchOut[k] = <<>>
         ELSE matchOut[k] # <<>> /\ matchOut[k][1] \in MatchingRules

\* the matcher returned none for a list holding a REGEX rule that does not
\* compile, a rule on a missing field and a rule on a blank field
C16_Witness ==
  /\ Len(matchOut) >= 1
  /\ matchOut[1] = <<>>
  /\ \E r \in ListedRules : r.operator = "REGEX" /\ "(" \in Range(r.pattern)
  /\ \E r \in ListedRules : readFieldValue(r, matchTx[1]) = <<>>
                              /\ FieldValue(r, matchTx[1]) # <<>>
  /\ \E r \in ListedRules :
       r.field = "MERCHANT_NAME" /\ matchTx[1].merchantName = NullStr

\* the fields in the order of precedence, with the priority of a rule
\* learned from each
LearnOrder(tx) ==
  <<[field |-> "MERCHANT_NAME", value |-> tx.merchantName, priority |-> 10],
    [field |-> "ORIGINAL_DESCRIPTION", value |-> tx.originalDescription, priority |-> 20],
    [field |-> "MCC", value |-> tx.mcc, priority |-> 30],
    [field |-> "PLAID_DETAILED_CATEGORY", value |-> tx.plaidDetailedCategory, priority |-> 40],
    [field |-> "PLAID_PRIMARY_CATEGORY", value |-> tx.plaidPrimaryCategory, priority |-> 50]>>

\* trimmed and lower-cased, "" for a missing value
Normal(value) ==
  IF value = NullStr THEN <<>> ELSE LowerCase(TrimRight(TrimLeft(value)))

\* C17: buildLearnedRuleCandidate returns a candidate for the first of
\* merchant name, original description, merchant category code, detailed
\* category, primary category whose trimmed lower-cased value is non-empty:
\* operator EQUALS, that value as pattern, priority 10, 20, 30, 40 or 50; it
\* returns none exactly when all five are empty after normalisation.
C17_FirstNonEmptyField ==
  learnOut # <<>> =>
    LET order == LearnOrder(matchTx[1])
        filled == {k \in 1..Len(order) : Normal(order[k].value) # <<>>}
    IN IF filled = {} THEN learnOut[1] = <<>>
       ELSE LET k == CHOOSE i \in filled : \A m \in filled : i <= m
            IN learnOut[1] = <<[field |-> order[k].field, operator |-> "EQUALS",
                                pattern |-> Normal(order[k].value),
                                priority |-> order[k].priority]>>

\* a candidate was built from the primary category, the last field in the
\* order, the four before it being missing or blank
C17_Witness ==
  /\ learnOut # <<>>
  /\ learnOut[1] # <<>>
  /\ learnOut[1][1].field = "PLAID_PRIMARY_CATEGORY"
  /\ learnOut[1][1].pattern = <<"a", "b">>
  /\ learnOut[1][1].priority = 50
  /\ matchTx[1].merchantName = <<" ">>
  /\ matchTx[1].mcc = NullStr

\* C18: after any number of recategorisations with createRule = true that
\* yield the same (user, category, field, operator, pattern), concurrent ones
\* included, at most one active learned rule with that tuple exists.
C18_OneActiveLearnedRule ==
  \A a, b \in DOMAIN ruleRows :
    (/\ ruleRows[a].is_active /\ ruleRows[b].is_active
     /\ RuleTuple(ruleRows[a].category_id, ruleRows[a])
          = RuleTuple(ruleRows[b].category_id, ruleRows[b])) => a = b


\* C19: a step that removes a sync_job row is a retention purge, and the row
\* it removes belongs to the calling user, is COMPLETED or FAILED and was
\* last updated before the cutoff; rows in PENDING, RETRY or PROCESSING and
\* rows of other users stay, and no status transition of the sync core
\* removes a row.
C19_PurgeScoped ==
  [][\A id \in DOMAIN syncJobs \ DOMAIN syncJobs' :
       \E p \in purged' \ purged :
         /\ p.id = id
         /\ syncJobs[id].user_id = p.caller
         /\ syncJobs[id].status \in TerminalStatuses
         /\ syncJobs[id].updated_at < p.cutoff]_vars

\* a purge deleted a terminal row of its caller and left an equally old
\* terminal row of the other user and an equally old RETRY row of the caller
C19_Witness ==
  \E p \in purged : \E a, b \in DOMAIN syncJobs :
    /\ syncJobs[a].user_id # p.caller
    /\ syncJobs[a].status \in TerminalStatuses
    /\ syncJobs[a].updated_at < p.cutoff
    /\ syncJobs[b].user_id = p.caller
    /\ syncJobs[b].status = "RETRY"
    /\ syncJobs[b].updated_at < p.cutoff


\* C20: once the reconciler has applied a removed record with external id X,
\* no PLAID transaction of the user with external id X exists, whether the
\* row was categorised by the system, a user or a rule, until a later record
\* is upserted.
C20_RemovedHardDeleted ==
  upsert.removed # <<>> =>
    \A y \in DOMAIN txns : ~(txns[y].user_id = TheUser /\ y = upsert.removed[1])

\* a row a user had categorised was deleted as removed, and the user has
\* since recategorised another transaction
C20_Witness ==
  /\ upsert.removed = <<"tx_1">>
  /\ upsert.deleted # <<>>
  /\ upsert.deleted[1].category_source = "USER"
  /\ "tx_1" \notin DOMAIN txns
  /\ "tx_2" \in DOMAIN txns
  /\ txns["tx_2"].category_source = "USER"


\* C21: when the reconciler has succeeded for a claimed job, the success
\* update leaves the job COMPLETED with attempt_count one above the count the
\* claim returned, last_error cleared and next_run_at as it was, and
\* processSyncJob returns claimed = true, completed = true; between the claim
\* and the update nothing changes the row's count or next_run_at.
C21_SuccessOutcome ==
  [][/\ \A w \in Workers :
          (worker[w].pc = "complete" /\ worker'[w].pc = "returned") =>
            LET j == worker[w].jobId
            IN /\ jobs'[j].status = "COMPLETED"
               /\ jobs'[j].attempt_count = worker[w].attempt_count + 1
               /\ jobs'[j].last_error = NULL
               /\ jobs'[j].next_run_at = jobs[j].next_run_at
               /\ SyncJobResult(worker'[w].ret) = [claimed |-> TRUE, completed |-> TRUE]
     /\ \A j \in JobIds :
          jobs'[j].status = "PROCESSING" =>
            /\ jobs'[j].attempt_count = jobs[j].attempt_count
            /\ jobs'[j].next_run_at = jobs[j].next_run_at
            /\ \A w \in Holders(j) : worker[w].attempt_count = jobs[j].attempt_count
    ]_vars

\* a job that had failed once completed on its second execution: the count
\* is 2, the recorded error is gone, next_run_at is still the retry date
C21_Witness ==
  \E w \in Workers : \E j \in JobIds :
    /\ worker[w].pc = "returned" /\ worker[w].ret = "completed"
    /\ worker[w].jobId = j
    /\ jobs[j].status = "COMPLETED"
    /\ jobs[j].attempt_count = 2
    /\ jobs[j].last_error = NULL
    /\ hist[j].retryAts # <<>>
    /\ jobs[j].next_run_at = hist[j].retryAts[Len(hist[j].retryAts)]
    /\ jobs[j].next_run_at < now


\* the delays of the claim: 2, 4, 8, ..., 256 for n = 1..8, 300 from n = 9 on
DelayTable == <<2, 4, 8, 16, 32, 64, 128, 256>>
DelayAfter(n) == IF n >= 9 THEN 300 ELSE DelayTable[n]

\* C22: a failure that brings the attempt count to n < max_attempts stores
\* RETRY with next_run_at = now + 2, 4, 8, ..., 256 seconds for n = 1..8 and
\* now + 300 for every n >= 9; a failure with n >= max_attempts stores FAILED
\* with next_run_at = now.
C22_BackoffSchedule ==
  [][\A w \in Workers :
       (worker[w].pc = "fail" /\ worker'[w].pc = "returned") =>
         LET j == worker[w].jobId
             n == jobs[j].attempt_count + 1
         IN /\ jobs'[j].attempt_count = n
            /\ IF n >= jobs[j].max_attempts
                 THEN /\ jobs'[j].status = "FAILED"
                      /\ jobs'[j].next_run_at = now
                 ELSE /\ jobs'[j].status = "RETRY"
                      /\ jobs'[j].next_run_at = now + DelayAfter(n)]_vars

\* the tenth failure of a job with attempts left: the delay is at the cap
C22_Witness ==
  \E j \in JobIds :
    /\ jobs[j].status = "RETRY"
    /\ jobs[j].attempt_count = 10
    /\ jobs[j].next_run_at = now + 300
    /\ hist[j].retryAts[8] - hist[j].retryAts[7] = 256


\* the jobs a sweep of scope u is to select from
DueFor(u) ==
  {j \in JobIds : /\ jobs[j].status \in {"PENDING", "RETRY"}
                  /\ jobs[j].next_run_at <= now
                  /\ u # "any" => jobs[j].user_id = u}
\* handler w issues the SELECT of a sweep in this step
SelectStep(w) ==
  /\ worker[w].pc = "idle"
  /\ worker'[w].pc = "claim" \/ sweeps'[w] # sweeps[w]

\* C23: the SELECT of a sweep returns only PENDING or RETRY jobs with
\* next_run_at <= now (of the given user, when scoped), the min(limit, number
\* due) earliest of them in ascending next_run_at order, and changes no job;
\* the sweep then calls processSyncJob on them one after another in that
\* order, changing no job but the one it is at; when it returns, queued is
\* the number selected and processed the number of jobs it claimed, with
\* processed <= queued <= limit.
C23_SweepSelectsAndCounts ==
  [][\A w \in Workers :
       /\ SelectStep(w) =>
            LET sel == sweeps'[w].selected
                due == DueFor(sweeps'[w].scope)
            IN /\ Range(sel) \subseteq due
               /\ IsInjective(sel)
               /\ Len(sel) = Min(sweeps'[w].limit, Cardinality(due))
               /\ \A a, b \in 1..Len(sel) :
                    a < b => jobs[sel[a]].next_run_at <= jobs[sel[b]].next_run_at
               /\ \A j \in due \ Range(sel), a \in 1..Len(sel) :
                    jobs[sel[a]].next_run_at <= jobs[j].next_run_at
               /\ jobs' = jobs
               /\ sel # <<>> =>
                    /\ <<worker'[w].jobId>> \o worker'[w].queue = sel
                    /\ worker'[w].queued = Len(sel)
                    /\ worker'[w].processed = 0
       /\ (worker[w].op = "sweep" /\ worker'[w] # worker[w]) =>
            LET sel == sweeps[w].selected
                k == Len(sel) - Len(worker[w].queue)
            IN /\ worker[w].jobId = sel[k]
               /\ worker[w].queue = SubSeq(sel, k + 1, Len(sel))
               /\ \A j \in JobIds : jobs'[j] # jobs[j] => j = sel[k]
               /\ worker[w].claimed \subseteq {sel[a] : a \in 1..k}
               /\ worker[w].processed <= worker[w].queued
               /\ worker[w].queued = Len(sel)
               /\ worker[w].queued <= sweeps[w].limit
               /\ worker[w].pc = "returned" =>
                    /\ worker[w].processed = Cardinality(worker[w].claimed)
                    /\ k < Len(sel) =>
                         /\ worker'[w].pc = "claim"
                         /\ worker'[w].jobId = sel[k + 1]]_vars

\* a sweep of every user's jobs with limit 2 has returned: of three due jobs
\* it selected two and claimed one, the other having been claimed by the
\* other handler first; the due job it did not select is as it was
C23_Witness ==
  \E w \in Workers :
    /\ worker[w].pc = "returned" /\ worker[w].op = "sweep"
    /\ worker[w].queue = <<>>
    /\ worker[w].queued = 2 /\ worker[w].processed = 1
    /\ sweeps[w].scope = "any" /\ sweeps[w].limit = 2
    /\ sweeps[w].selected = <<3, 2>>
    /\ jobs[1].status = "PENDING" /\ jobs[1].next_run_at = SweepClock
    /\ hist[1].invoked = 0


\* the job processSyncJob is called on can be claimed
CanBeClaimed(j) ==
  /\ j \in DOMAIN jobs
  /\ jobs[j].status \notin {"PROCESSING", "COMPLETED", "FAILED"}
  /\ jobs[j].next_run_at <= now

\* C24: a processSyncJob call on a job that does not exist, is PROCESSING,
\* COMPLETED or FAILED, or is not yet due returns claimed = false without
\* invoking the reconciler and changes no field of any job.
C24_UnclaimedLeavesJobs ==
  [][\A w \in Workers :
       (worker[w].pc = "claim" /\ worker'[w] # worker[w]
          /\ ~CanBeClaimed(worker[w].jobId)) =>
         /\ worker'[w].pc = "returned"
         /\ SyncJobResult(worker'[w].ret) = [claimed |-> FALSE]
         /\ jobs' = jobs
         /\ \A j \in DOMAIN hist : hist'[j].invoked = hist[j].invoked]_vars

\* processSyncJob returned claimed = false for a job whose row had been
\* deleted between the enqueue and the claim
C24_Witness ==
  \E w \in Workers :
    /\ worker[w].pc = "returned" /\ worker[w].ret = "unclaimed"
    /\ worker[w].op = "webhook" /\ worker[w].created
    /\ worker[w].jobId \notin DOMAIN jobs
    /\ hist[worker[w].jobId].invoked = 0

\* ... and for a job in RETRY that is not yet due
C24_WitnessNotDue ==
  \E w \in Workers :
    /\ worker[w].pc = "returned" /\ worker[w].ret = "unclaimed"
    /\ worker[w].jobId \in DOMAIN jobs
    /\ jobs[worker[w].jobId].status = "RETRY"
    /\ jobs[worker[w].jobId].next_run_at > now

\* ... and for a job another handler holds
C24_WitnessProcessing ==
  \E w \in Workers :
    /\ worker[w].pc = "returned" /\ worker[w].ret = "unclaimed"
    /\ worker[w].jobId \in DOMAIN jobs
    /\ jobs[worker[w].jobId].status = "PROCESSING"


\* the names of the categories the upstream labels of the records stand for:
\* "A_B-a" is "A B A"; a blank detailed label with primary " b__A " is "B A"
LabelName(tx) ==
  CASE tx.data.detailed = <<"A", "_", "B", "-", "a">> -> <<"A", " ", "B", " ", "A">>
    [] tx.data.detailed = <<" ">> /\ tx.data.primary = <<" ", "b", "_", "_", "A", " ">>
         -> <<"B", " ", "A">>
    [] tx.data.detailed = NullStr /\ tx.data.primary = NullStr -> NullStr

\* C25: an upsert of a record whose external id exists locally with
\* provenance SYSTEM stores the system category named after the record's
\* detailed label, or after its primary label when the detailed one is blank,
\* or no category when the record has neither; provenance stays SYSTEM and
\* the confidence is empty.
C25_SystemRowRecategorised ==
  [][(upsert.pc = "statement" /\ upsert'.pc = "idle") =>
       LET tx == upsert.tx[1]
           x == tx.transaction_id
           name == LabelName(tx)
       IN (x \in DOMAIN txns /\ txns[x].category_source = "SYSTEM") =>
            /\ txns'[x].category_id = name
            /\ name # NullStr =>
                 /\ name \in DOMAIN categories'
                 /\ categories'[name].is_system
            /\ txns'[x].category_source = "SYSTEM"
            /\ txns'[x].category_confidence = NoConfidence]_vars

\* a SYSTEM row filed under "A B A" was upserted with a record that has only
\* a primary label: it is now under "B A", a category the user had created
\* by hand and the reconciler has made a system category
C25_Witness ==
  /\ upsert.pc = "idle" /\ upsert.replaced # <<>> /\ upsert.tx # <<>>
  /\ upsert.replaced[1].category_source = "SYSTEM"
  /\ upsert.replaced[1].category_id = <<"A", " ", "B", " ", "A">>
  /\ upsert.tx[1].data.detailed = <<" ">>
  /\ LET x == upsert.tx[1].transaction_id
     IN /\ x \in DOMAIN txns
        /\ txns[x].category_id = <<"B", " ", "A">>
        /\ txns[x].category_source = "SYSTEM"
        /\ categories[<<"B", " ", "A">>].is_system

\* ... and a categorised SYSTEM row was upserted with a record without labels
C25_WitnessNoLabel ==
  /\ upsert.pc = "idle" /\ upsert.replaced # <<>> /\ upsert.tx # <<>>
  /\ upsert.replaced[1].category_source = "SYSTEM"
  /\ upsert.replaced[1].category_id # NullStr
  /\ upsert.tx[1].data.detailed = NullStr
  /\ LET x == upsert.tx[1].transaction_id
     IN x \in DOMAIN txns /\ txns[x].category_id = NullStr


\* handler w is in a run that has had no drift reset
NoReset(w) == worker[w].resets = 0 /\ worker[w].pc \notin {"reset", "refetch"}
HasMoreFlags == [k \in 1..Len(feed.got) |-> feed.got[k].has_more]

\* C26: in a run without drift reset the first transactionsSync call sends
\* the cursor stored for the item and every later call the next_cursor of
\* the response before it; a call is made only when the page before it has
\* been applied in full and its response had has_more = true; the loop ends
\* at the first response with has_more = false, and the UPDATE that follows
\* stores that response's next_cursor with last_synced_at = now.
C26_PagesInCursorOrder ==
  [][\A w \in Workers :
       NoReset(w) =>
         /\ (worker[w].pc = "fetch" /\ feed'.sent # feed.sent) =>
              LET n == Len(feed.got)
                  sent == feed'.sent[Len(feed'.sent)]
              IN /\ Len(feed'.sent) = n + 1
                 /\ sent = IF n = 0 THEN items[worker[w].item].plaid_cursor
                                    ELSE feed.got[n].next_cursor
                 /\ feed.todo = <<>> /\ upsert.pc = "idle"
                 /\ Len(feed.after) = n
                 /\ \A k \in 1..n : feed.got[k].has_more
         /\ (worker[w].pc = "apply" /\ worker'[w].pc # "apply") =>
              /\ feed.todo = <<>> /\ upsert.pc = "idle"
              /\ worker'[w].pc = IF feed.got[Len(feed.got)].has_more
                                   THEN "fetch" ELSE "persist"
         /\ (worker[w].pc = "persist" /\ worker'[w].pc # "persist") =>
              LET n == Len(feed.got)
              IN /\ n >= 1 /\ Len(feed.after) = n
                 /\ ~feed.got[n].has_more
                 /\ \A k \in 1..(n - 1) : feed.got[k].has_more
                 /\ items'[worker[w].item] =
                      [plaid_cursor |-> feed.got[n].next_cursor,
                       last_synced_at |-> now]]_vars

\* a run of three pages from a stored cursor has ended: the calls sent the
\* stored cursor, then each response's next_cursor, and the last one's is
\* stored with the time of the run
C26_Witness ==
  \E w \in Workers :
    /\ worker[w].pc = "complete" /\ worker[w].resets = 0
    /\ Len(feed.got) = 3 /\ feed.sent = <<1, 2, 1>>
    /\ HasMoreFlags = <<TRUE, TRUE, FALSE>>
    /\ feed.got[1].next_cursor = 2 /\ feed.got[2].next_cursor = 1
    /\ feed.got[3].next_cursor = 2
    /\ items[worker[w].item] = [plaid_cursor |-> 2, last_synced_at |-> now]


\* responses k and k + 1 carried the same page and both have been applied
AppliedTwice(k) ==
  /\ k + 1 <= Len(feed.after)
  /\ feed.got[k].page = feed.got[k + 1].page

C30_WitnessInOnePass ==
  \E w \in Workers :
    /\ worker[w].resets = 0
    /\ Len(feed.got) >= 2 /\ AppliedTwice(1)
    /\ feed.got[1].page.added # <<>>
    /\ feed.after[1].txns # <<>>


\* job j is PROCESSING and the worker that claimed it has stopped
Stuck(j) ==
  /\ j \in JobIds
  /\ jobs[j].status = "PROCESSING"
  /\ Holders(j) = {}
  /\ \E w \in Workers : worker[w].pc = "stopped" /\ worker[w].jobId = j

\* C27: a row whose status is PROCESSING is changed by no step but the
\* outcome statement of the worker that claimed it: not by an enqueue, a
\* claim or a sweep of any worker; so once that worker has stopped the row
\* stays as it is, PROCESSING, in every later state.
C27_ProcessingStaysWhenWorkerStops ==
  [][\A j \in JobIds :
       jobs[j].status = "PROCESSING" =>
         /\ j \in DOMAIN jobs'
         /\ jobs'[j] # jobs[j] =>
              \E w \in Holders(j) : /\ worker[w].pc \in {"complete", "fail"}
                                    /\ worker'[w].pc = "returned"
         /\ Stuck(j) => Stuck(j)' /\ jobs'[j] = jobs[j]]_vars

\* the worker that claimed job 1 has stopped; since then the clock has
\* passed the job's next_run_at, the webhook has been enqueued again and the
\* other worker's sweep or enqueue has tried to claim the job and returned
\* claimed=false
C27_Witness ==
  /\ Stuck(1)
  /\ now > jobs[1].next_run_at
  /\ \E w \in Workers : /\ worker[w].pc = "returned"
                        /\ worker[w].ret = "unclaimed"
                        /\ worker[w].jobId = 1


\* job j has reached COMPLETED or FAILED
Settled(j) == j \in JobIds /\ jobs[j].status \in Terminal
\* job j waits for an instant the clock of the model does not reach
BeyondHorizon(j) ==
  j \in JobIds /\ jobs[j].status = "RETRY" /\ jobs[j].next_run_at > MaxTime

C28_WitnessRetried ==
  \E j \in JobIds : /\ jobs[j].status = "COMPLETED"
                    /\ hist[j].invoked = 2
                    /\ Len(hist[j].retryAts) = 1


\* the category_change_event rows of transaction x, oldest first
EventsOf(x) ==
  LET ks == {k \in 1..Len(changeEvents) : changeEvents[k].transaction_id = x}
  IN [k \in ks |-> changeEvents[k]]
LastEventOf(x) ==
  LET ev == EventsOf(x)
  IN ev[CHOOSE k \in DOMAIN ev : \A i \in DOMAIN ev : i <= k]

\* C29: however the statements of a recategorisation request and of an
\* upsert of the same record interleave, from the commit of the request on
\* the row has provenance USER and the category of the last committed
\* request, before, during and after every upsert; and the upsert statement
\* always stores the record, whatever the provenance of the row it meets.
C29_UserCategoryWinsRace ==
  /\ [](\A x \in DOMAIN txns :
          EventsOf(x) # <<>> =>
            /\ txns[x].category_source = "USER"
            /\ txns[x].category_id = LastEventOf(x).new_category_id
            /\ txns[x].category_confidence = NoConfidence)
  /\ [][(upsert.pc = "statement" /\ upsert'.pc = "idle") =>
         LET tx == upsert.tx[1]
         IN /\ tx.transaction_id \in DOMAIN txns'
            /\ RefreshedBy(txns'[tx.transaction_id], tx)]_vars

\* the request read the row, the reconciler then stored a category of its
\* own on it, the request committed: the row has the user's category
C29_Witness ==
  /\ upsert.pc = "idle" /\ upsert.tx # <<>> /\ upsert.replaced # <<>>
  /\ Len(changeEvents) = 1
  /\ LET x == upsert.tx[1].transaction_id
         e == changeEvents[1]
     IN /\ e.transaction_id = x
        /\ upsert.replaced[1].category_source = "SYSTEM"
        /\ Truthy(upsert.categoryId)
        /\ e.old_category_id # upsert.categoryId
        /\ Truthy(e.new_category_id)
        /\ e.new_category_id # upsert.categoryId
        /\ txns[x].category_source = "USER"
        /\ txns[x].category_id = e.new_category_id
        /\ RefreshedBy(txns[x], upsert.tx[1])

\* the request committed before the upsert statement ran, after the
\* reconciler had stored the category for the record
C29_WitnessUserFirst ==
  /\ upsert.pc = "idle" /\ upsert.tx # <<>> /\ upsert.replaced # <<>>
  /\ Len(changeEvents) = 1
  /\ LET x == upsert.tx[1].transaction_id
         e == changeEvents[1]
     IN /\ e.transaction_id = x
        /\ upsert.replaced[1].category_source = "USER"
        /\ upsert.replaced[1].category_id = e.new_category_id
        /\ Truthy(upsert.categoryId)
        /\ e.new_category_id # upsert.categoryId
        /\ txns[x].category_id = e.new_category_id
        /\ txns[x].amount # upsert.replaced[1].amount

====
